---- MODULE Spec2Model ----
(***************************************************************************)
(* SimpleDb (src/src/block_buster/core/database.py): an LSM-style engine   *)
(* with column families, a write-ahead log, memtables, SSTable segment     *)
(* files and a JSON manifest.  The module models the engine's in-memory    *)
(* state, the files it keeps on disk, and its public operations.           *)
(*                                                                         *)
(* Byte strings are sequences of integers 0..255.  Python's None is the    *)
(* sequence None, which is no byte string.                                 *)
(***************************************************************************)
EXTENDS Integers, Sequences, FiniteSets, TLC

\* ---------------------------------------------------------------- bounds
\* Number of put/delete calls (completed or cut short by a crash) in a run.
MaxMut == 2
\* Flush and compaction stop once a family's next_file_id reaches this.
MaxFileId == 3

\* ---------------------------------------------------------------- inputs
CFNames == {"a", "b"}
Keys == {<<1>>, <<1, 2>>}
Values == {<<7>>, <<8>>}
Prefixes == {<<>>, <<1>>, <<1, 2>>, <<2>>}

None == <<-1>>
\* "no mutation recorded", used by the history variables only
NoMut == <<-2>>

\* ------------------------------------------------------- byte-string helpers
\* bytes.startswith
StartsWith(key, prefix) ==
    /\ Len(prefix) <= Len(key)
    /\ SubSeq(key, 1, Len(prefix)) = prefix

\* Python's ordering of bytes objects, and of file names of equal width
LexLess(a, b) ==
    \E i \in 1..Len(b) :
        /\ Len(a) >= i - 1
        /\ \A j \in 1..(i - 1) : a[j] = b[j]
        /\ (Len(a) = i - 1 \/ a[i] < b[i])

RemoveAt(s, i) == SubSeq(s, 1, i - 1) \o SubSeq(s, i + 1, Len(s))

\* sorted(pairs, key=lambda x: x[0]): stable sort of <<key, value>> pairs
RECURSIVE SortByKey(_)
SortByKey(s) ==
    IF s = <<>> THEN <<>>
    ELSE LET i == CHOOSE i \in 1..Len(s) :
                    /\ \A j \in 1..Len(s) : ~LexLess(s[j][1], s[i][1])
                    /\ \A j \in 1..(i - 1) : LexLess(s[i][1], s[j][1])
         IN  <<s[i]>> \o SortByKey(RemoveAt(s, i))

\* sorted(path.glob("*.sst")): the names of a directory in ascending order
RECURSIVE SortNames(_)
SortNames(S) ==
    IF S = {} THEN <<>>
    ELSE LET m == CHOOSE m \in S : \A n \in S : ~LexLess(n, m)
         IN  <<m>> \o SortNames(S \ {m})

RECURSIVE Reverse(_)
Reverse(s) == IF s = <<>> THEN <<>> ELSE Append(Reverse(Tail(s)), Head(s))

\* f"{file_id:08d}.sst": the decimal digits of file_id, zero-padded
NameWidth == 8
SstName(file_id) ==
    [i \in 1..NameWidth |-> (file_id \div (10 ^ (NameWidth - i))) % 10]

\* bytes.hex / bytes.fromhex: two hexadecimal digits per byte
Hex(b) ==
    [i \in 1..(2 * Len(b)) |->
        IF i % 2 = 1 THEN b[(i + 1) \div 2] \div 16 ELSE b[i \div 2] % 16]
FromHex(h) ==
    [i \in 1..(Len(h) \div 2) |-> 16 * h[2 * i - 1] + h[2 * i]]

\* ---------------------------------------------------------------- memtable
\* An OrderedDict key -> Optional[bytes]: a sequence of <<key, value>> pairs
\* with distinct keys, in first-insertion order.
MemHas(mem, key) == \E i \in 1..Len(mem) : mem[i][1] = key
MemGet(mem, key) ==
    mem[CHOOSE i \in 1..Len(mem) : mem[i][1] = key][2]
\* A memtable that keeps every assignment as an entry of its own
MemSetAppends(mem, key, value) == Append(mem, <<key, value>>)

\* self.memtable[key] = value
MemSet(mem, key, value) ==
    IF MemHas(mem, key)
    THEN [i \in 1..Len(mem) |->
            IF mem[i][1] = key THEN <<key, value>> ELSE mem[i]]
    ELSE Append(mem, <<key, value>>)

\* ------------------------------------------------------------ SSTable codec
\* One record of a segment file: key_len | key | value_len | value
\* (each length is one element here, four big-endian bytes in the file).
SstRecord(key, value) == <<Len(key)>> \o key \o <<Len(value)>> \o value

\* The file written from a sequence of <<key, value-or-None>> pairs;
\* None is written as the empty value.
RECURSIVE SstEncode(_)
SstEncode(entries) ==
    IF entries = <<>> THEN <<>>
    ELSE LET e == Head(entries)
             v == IF e[2] = None THEN <<>> ELSE e[2]
         IN  SstRecord(e[1], v) \o SstEncode(Tail(entries))

\* The read loop shared by the three readers: the <<key, value>> records of
\* a file, in file order.
RECURSIVE SstRecords(_)
SstRecords(bytes) ==
    IF bytes = <<>> THEN <<>>
    ELSE LET key_len == bytes[1]
             key == SubSeq(bytes, 2, 1 + key_len)
             value_len == bytes[2 + key_len]
             value == SubSeq(bytes, 3 + key_len, 2 + key_len + value_len)
         IN  <<<<key, value>>>>
                 \o SstRecords(SubSeq(bytes, 3 + key_len + value_len, Len(bytes)))

\* ColumnFamily._read_from_sstable: the first record with the key;
\* `value if value else None`.  A missing file is an error, logged, None.
ReadFromSstable(dir, sst, key) ==
    IF sst \notin DOMAIN dir THEN None
    ELSE LET recs == SstRecords(dir[sst])
             hits == {i \in 1..Len(recs) : recs[i][1] = key}
         IN  IF hits = {} THEN None
             ELSE LET i == CHOOSE i \in hits : \A j \in hits : i <= j
                  IN  IF recs[i][2] # <<>> THEN recs[i][2] ELSE None

\* ColumnFamily._scan_sstable: records with the prefix and a non-empty value
ScanSstable(dir, sst, prefix) ==
    IF sst \notin DOMAIN dir THEN <<>>
    ELSE SelectSeq(SstRecords(dir[sst]),
                   LAMBDA r : StartsWith(r[1], prefix) /\ r[2] # <<>>)

\* ColumnFamily._read_sstable: every record, the empty value read as None
ReadSstable(dir, sst) ==
    IF sst \notin DOMAIN dir THEN <<>>
    ELSE LET recs == SstRecords(dir[sst])
         IN  [i \in 1..Len(recs) |->
                <<recs[i][1], IF recs[i][2] # <<>> THEN recs[i][2] ELSE None>>]

\* ------------------------------------------------------------ ColumnFamily
\* A column family is [name, memtable, sstables]; dir is its directory, a
\* function from the names of its segment files to their contents.

\* A family whose segment files are loaded newest first
NewColumnFamilyNewestFirst(name, dir) ==
    [name |-> name, memtable |-> <<>>, sstables |-> Reverse(SortNames(DOMAIN dir))]

\* ColumnFamily.__init__ with _load_sstables
NewColumnFamily(name, dir) ==
    [name |-> name, memtable |-> <<>>, sstables |-> SortNames(DOMAIN dir)]

\* The loop of ColumnFamily.get over reversed(self.sstables)
RECURSIVE GetFromSstables(_, _, _)
GetFromSstables(dir, newestFirst, key) ==
    IF newestFirst = <<>> THEN None
    ELSE LET value == ReadFromSstable(dir, Head(newestFirst), key)
         IN  IF value # None
             THEN (IF value = <<>> THEN None ELSE value)
             ELSE GetFromSstables(dir, Tail(newestFirst), key)

\* ColumnFamily.get with the segments searched oldest first
CfGetOldestFirst(cf, dir, key) ==
    IF MemHas(cf.memtable, key)
    THEN MemGet(cf.memtable, key)
    ELSE GetFromSstables(dir, cf.sstables, key)

\* ColumnFamily.get
CfGet(cf, dir, key) ==
    IF MemHas(cf.memtable, key)
    THEN MemGet(cf.memtable, key)
    ELSE GetFromSstables(dir, Reverse(cf.sstables), key)

\* The inner loop of ColumnFamily.prefix_scan: a scanned record is kept when
\* its key was not seen before and its value is non-empty.
RECURSIVE AddScanned(_, _)
AddScanned(results, found) ==
    IF found = <<>> THEN results
    ELSE LET r == Head(found)
             seen == \E i \in 1..Len(results) : results[i][1] = r[1]
         IN  AddScanned(IF ~seen /\ r[2] # <<>> THEN Append(results, r) ELSE results,
                        Tail(found))

\* The loop of ColumnFamily.prefix_scan over reversed(self.sstables)
RECURSIVE ScanSstables(_, _, _, _)
ScanSstables(dir, newestFirst, prefix, results) ==
    IF newestFirst = <<>> THEN results
    ELSE ScanSstables(dir, Tail(newestFirst), prefix,
                      AddScanned(results, ScanSstable(dir, Head(newestFirst), prefix)))

\* ColumnFamily.prefix_scan
CfPrefixScan(cf, dir, prefix) ==
    LET fromMem == SelectSeq(cf.memtable,
                     LAMBDA e : StartsWith(e[1], prefix) /\ e[2] # None)
    IN  SortByKey(ScanSstables(dir, Reverse(cf.sstables), prefix, fromMem))

\* ColumnFamily.flush_memtable without self.memtable.clear()
FlushMemtableKeepsEntries(cf, dir, ment) ==
    IF cf.memtable = <<>>
    THEN [cf |-> cf, dir |-> dir, ment |-> ment]
    ELSE LET file_id == ment.next_file_id
             sst == SstName(file_id)
             seq == ment.sequence + 1
         IN  [cf |-> [cf EXCEPT !.sstables = Append(@, sst)],
              dir |-> (sst :> SstEncode(cf.memtable)) @@ dir,
              ment |-> [next_file_id |-> file_id + 1,
                        sstables |-> Append(ment.sstables,
                                            [file |-> sst, sequence |-> seq]),
                        sequence |-> seq]]

\* ColumnFamily.flush_memtable, on the family, its directory and its manifest
\* entry; the result holds the three after the call.
FlushMemtable(cf, dir, ment) ==
    IF cf.memtable = <<>>
    THEN [cf |-> cf, dir |-> dir, ment |-> ment]
    ELSE LET file_id == ment.next_file_id
             sst == SstName(file_id)
             seq == ment.sequence + 1
         IN  [cf |-> [cf EXCEPT !.sstables = Append(@, sst), !.memtable = <<>>],
              dir |-> (sst :> SstEncode(cf.memtable)) @@ dir,
              ment |-> [next_file_id |-> file_id + 1,
                        sstables |-> Append(ment.sstables,
                                            [file |-> sst, sequence |-> seq]),
                        sequence |-> seq]]

\* all_data[key] = value over the records of one file after another
RECURSIVE MergeRecords(_, _)
MergeRecords(all_data, recs) ==
    IF recs = <<>> THEN all_data
    ELSE MergeRecords(MemSet(all_data, Head(recs)[1], Head(recs)[2]), Tail(recs))

RECURSIVE ReadAll(_, _, _)
ReadAll(dir, ssts, all_data) ==
    IF ssts = <<>> THEN all_data
    ELSE ReadAll(dir, Tail(ssts), MergeRecords(all_data, ReadSstable(dir, Head(ssts))))

\* The loop `for sst in self.sstables: sst.unlink()` over the first n names:
\* the directory it leaves, and whether an unlink raised (the file was not
\* there, for a name the list holds twice or a file an earlier run removed).
RECURSIVE UnlinkFirst(_, _, _)
UnlinkFirst(dir, ssts, n) ==
    IF n = 0 \/ ssts = <<>> THEN [dir |-> dir, raised |-> FALSE]
    ELSE IF Head(ssts) \notin DOMAIN dir THEN [dir |-> dir, raised |-> TRUE]
    ELSE UnlinkFirst([f \in (DOMAIN dir) \ {Head(ssts)} |-> dir[f]],
                     Tail(ssts), n - 1)

\* The compacted file of ColumnFamily.compact_sstables: its name and bytes
CompactedFile(cf, dir, ment) ==
    LET all_data == ReadAll(dir, cf.sstables, <<>>)
        kept == SelectSeq(SortByKey(all_data),
                          LAMBDA e : ~(e[2] = None \/ e[2] = <<>>))
    IN  [name |-> SstName(ment.next_file_id), bytes |-> SstEncode(kept)]

\* A compaction that also rewrites a family of one segment
CompactSstablesFromOne(cf, dir, ment) ==
    IF Len(cf.sstables) < 1
    THEN [cf |-> cf, dir |-> dir, ment |-> ment, raised |-> FALSE]
    ELSE LET new == CompactedFile(cf, dir, ment)
             written == (new.name :> new.bytes) @@ dir
             unlinked == UnlinkFirst(written, cf.sstables, Len(cf.sstables))
             seq == ment.sequence + 1
         IN  [cf |-> [cf EXCEPT !.sstables = <<new.name>>],
              dir |-> unlinked.dir,
              ment |-> [next_file_id |-> ment.next_file_id + 1,
                        sstables |-> <<[file |-> new.name, sequence |-> seq]>>,
                        sequence |-> seq],
              raised |-> FALSE]

\* ColumnFamily.compact_sstables; raised: an unlink raised, which leaves the
\* new file written, the files before the missing one removed, and the
\* family and its manifest entry as they were.
CompactSstables(cf, dir, ment) ==
    IF Len(cf.sstables) < 2
    THEN [cf |-> cf, dir |-> dir, ment |-> ment, raised |-> FALSE]
    ELSE LET new == CompactedFile(cf, dir, ment)
             written == (new.name :> new.bytes) @@ dir
             unlinked == UnlinkFirst(written, cf.sstables, Len(cf.sstables))
             seq == ment.sequence + 1
         IN  IF unlinked.raised
             THEN [cf |-> cf, dir |-> unlinked.dir, ment |-> ment,
                   raised |-> TRUE]
             ELSE [cf |-> [cf EXCEPT !.sstables = <<new.name>>],
                   dir |-> unlinked.dir,
                   ment |-> [next_file_id |-> ment.next_file_id + 1,
                             sstables |-> <<[file |-> new.name,
                                             sequence |-> seq]>>,
                             sequence |-> seq],
                   raised |-> FALSE]

\* ------------------------------------------------------------------- WAL
\* wal.log is a sequence of units.  A record is a length unit followed by the
\* units of its JSON payload, one per field; the length counts the payload's
\* units (the byte count in the file).  A write cut short leaves a proper
\* prefix of the record's units.
WalUnit(t, n, s, h) == [t |-> t, n |-> n, s |-> s, h |-> h]

\* SimpleDb._write_wal_entry: the record appended for one mutation
WalRecord(cf, op, key, value) ==
    LET entry == <<WalUnit("cf", 0, cf, <<>>),
                   WalUnit("op", 0, op, <<>>),
                   WalUnit("key", 0, "", Hex(key))>>
                 \o (IF value # None
                     THEN <<WalUnit("value", 0, "", Hex(value))>>
                     ELSE <<>>)
    IN  <<WalUnit("len", Len(entry), "", <<>>)>> \o entry

\* json.loads of a payload and the field reads of _replay_wal succeed
WalDecodes(p) ==
    /\ Len(p) \in {3, 4}
    /\ p[1].t = "cf"
    /\ p[2].t = "op"
    /\ p[3].t = "key"
    /\ Len(p) = 4 => p[4].t = "value"
    /\ p[2].s = "put" => Len(p) = 4

\* -------------------------------------------------------------- SimpleDb
\* The engine and its directory as one record:
\*   cfs          self.cfs, the column families in insertion order
\*   manifest     self.manifest['cfs']
\*   manifestFile manifest.json
\*   sstFiles     the segment files of each family's directory
\*   walFile      wal.log
HasCf(cfsv, name) == \E i \in 1..Len(cfsv) : cfsv[i].name = name
CfIndex(cfsv, name) == CHOOSE i \in 1..Len(cfsv) : cfsv[i].name = name
CfOf(cfsv, name) == cfsv[CfIndex(cfsv, name)]

NewManifestEntry == [next_file_id |-> 0, sstables |-> <<>>, sequence |-> 0]

\* manifest.json is [exists, form, cfs].  form tells what json.load makes of
\* the file: "manifest" (an object with 'cfs', as _save_manifest writes it;
\* cfs is its content), "not json" (json.load raises), "other json" (any
\* other JSON value, such as {} or []).
ManifestForms == {"manifest", "not json", "other json"}

\* SimpleDb._load_manifest returns the value json.load gives, whatever it
\* is; a missing file and a file json.load raises on give {'cfs': {}}
ManifestHasCfs(file) == ~file.exists \/ file.form # "other json"

\* SimpleDb._load_manifest, for a result that has 'cfs'
LoadManifest(file) ==
    IF file.exists /\ file.form = "manifest" THEN file.cfs ELSE <<>>

\* SimpleDb._save_manifest
SaveManifest(st) ==
    [st EXCEPT !.manifestFile = [exists |-> TRUE, form |-> "manifest",
                              cfs |-> st.manifest]]

\* SimpleDb.ensure_cf
EnsureCf(st, cf) ==
    IF HasCf(st.cfs, cf) THEN st
    ELSE LET added == [st EXCEPT
                 !.cfs = Append(@, NewColumnFamily(cf, st.sstFiles[cf]))]
         IN  IF cf \in DOMAIN st.manifest THEN added
             ELSE SaveManifest(
                    [added EXCEPT !.manifest = (cf :> NewManifestEntry) @@ @])

\* SimpleDb.get
DbGet(st, cf, key) ==
    IF ~HasCf(st.cfs, cf) THEN None
    ELSE CfGet(CfOf(st.cfs, cf), st.sstFiles[cf], key)

\* SimpleDb.prefix_iterator, as the list it iterates
DbPrefixScan(st, cf, prefix) ==
    IF ~HasCf(st.cfs, cf) THEN <<>>
    ELSE CfPrefixScan(CfOf(st.cfs, cf), st.sstFiles[cf], prefix)

\* ColumnFamily.put / ColumnFamily.delete on the family named cf
SetMemtable(st, cf, key, value) ==
    [st EXCEPT !.cfs[CfIndex(st.cfs, cf)].memtable = MemSet(@, key, value)]

\* SimpleDb.put
DbPut(st, cf, key, value) ==
    LET ensured == EnsureCf(st, cf)
        applied == SetMemtable(ensured, cf, key, value)
    IN  [applied EXCEPT !.walFile = @ \o WalRecord(cf, "put", key, value)]

\* A delete that changes the memtable and appends nothing to the WAL
DbDeleteNotLogged(st, cf, key) ==
    IF ~HasCf(st.cfs, cf) THEN st
    ELSE SetMemtable(st, cf, key, None)

\* SimpleDb.delete
DbDelete(st, cf, key) ==
    IF ~HasCf(st.cfs, cf) THEN st
    ELSE LET applied == SetMemtable(st, cf, key, None)
         IN  [applied EXCEPT !.walFile = @ \o WalRecord(cf, "delete", key, None)]

\* The value SimpleDb.put returns: old_value, read after ensure_cf
DbPutReturns(st, cf, key) ==
    LET ensured == EnsureCf(st, cf)
    IN  CfGet(CfOf(ensured.cfs, cf), ensured.sstFiles[cf], key)

\* The value SimpleDb.delete returns
DbDeleteReturns(st, cf, key) ==
    IF ~HasCf(st.cfs, cf) THEN None
    ELSE CfGet(CfOf(st.cfs, cf), st.sstFiles[cf], key)

\* The value the call of operation o returns
Returns(st, o) ==
    IF o[1] = "put" THEN DbPutReturns(st, o[2], o[3])
    ELSE DbDeleteReturns(st, o[2], o[3])

\* One operation of a batch: <<"put", cf, key, value>> or <<"delete", cf, key, None>>
ApplyOp(st, o) ==
    IF o[1] = "put" THEN DbPut(st, o[2], o[3], o[4])
    ELSE IF o[1] = "delete" THEN DbDelete(st, o[2], o[3])
    ELSE st

\* SimpleDb.write_batch with the operations applied last to first
RECURSIVE DbWriteBatchReversed(_, _)
DbWriteBatchReversed(st, operations) ==
    IF operations = <<>> THEN st
    ELSE ApplyOp(DbWriteBatchReversed(st, Tail(operations)), Head(operations))

\* SimpleDb.write_batch
RECURSIVE DbWriteBatch(_, _)
DbWriteBatch(st, operations) ==
    IF operations = <<>> THEN st
    ELSE DbWriteBatch(ApplyOp(st, Head(operations)), Tail(operations))

\* The loop of SimpleDb.flush over self.cfs, from family i on
RECURSIVE FlushFrom(_, _)
FlushFrom(st, i) ==
    IF i > Len(st.cfs) THEN st
    ELSE LET name == st.cfs[i].name
             r == FlushMemtable(st.cfs[i], st.sstFiles[name], st.manifest[name])
         IN  FlushFrom([st EXCEPT !.cfs[i] = r.cf,
                                  !.sstFiles[name] = r.dir,
                                  !.manifest[name] = r.ment], i + 1)

\* SimpleDb.flush that empties the WAL without saving the manifest
DbFlushManifestNotSaved(st) ==
    [FlushFrom(st, 1) EXCEPT !.walFile = <<>>]

\* SimpleDb.flush: every memtable to a segment, the manifest saved, the WAL
\* file unlinked and created again
DbFlush(st) ==
    [SaveManifest(FlushFrom(st, 1)) EXCEPT !.walFile = <<>>]

\* The loop of SimpleDb.compact over self.cfs, from family i on; an
\* exception of compact_sstables ends the loop.
RECURSIVE CompactFrom(_, _)
CompactFrom(st, i) ==
    IF i > Len(st.cfs) THEN [st |-> st, raised |-> FALSE]
    ELSE LET name == st.cfs[i].name
             r == CompactSstables(st.cfs[i], st.sstFiles[name], st.manifest[name])
             after == [st EXCEPT !.cfs[i] = r.cf,
                                 !.sstFiles[name] = r.dir,
                                 !.manifest[name] = r.ment]
         IN  IF r.raised THEN [st |-> after, raised |-> TRUE]
             ELSE CompactFrom(after, i + 1)

\* SimpleDb.compact raises: the manifest is not saved
DbCompactRaises(st) == CompactFrom(st, 1).raised

\* SimpleDb.compact
DbCompact(st) ==
    LET r == CompactFrom(st, 1)
    IN  IF r.raised THEN r.st ELSE SaveManifest(r.st)

\* The body of the replay loop without its ensure_cf: an entry of a family
\* the engine does not hold is skipped
ReplayEntryKnownOnly(st, p) ==
    LET cf_name == p[1].s
        op == p[2].s
        key == FromHex(p[3].h)
    IN  IF ~HasCf(st.cfs, cf_name) THEN st
        ELSE IF op = "put" THEN SetMemtable(st, cf_name, key, FromHex(p[4].h))
        ELSE IF op = "delete" THEN SetMemtable(st, cf_name, key, None)
        ELSE st

\* The body of the replay loop for one decoded entry
ReplayEntry(st, p) ==
    LET cf_name == p[1].s
        op == p[2].s
        key == FromHex(p[3].h)
        ensured == EnsureCf(st, cf_name)
    IN  IF op = "put" THEN SetMemtable(ensured, cf_name, key, FromHex(p[4].h))
        ELSE IF op = "delete" THEN SetMemtable(ensured, cf_name, key, None)
        ELSE ensured

\* The file ends, from unit pos on, in a record shorter than its length says
RECURSIVE WalEndsCut(_, _)
WalEndsCut(w, pos) ==
    IF pos > Len(w) THEN FALSE
    ELSE IF w[pos].t # "len" THEN FALSE
    ELSE IF pos + w[pos].n > Len(w) THEN TRUE
    ELSE WalEndsCut(w, pos + w[pos].n + 1)

\* A replay that decodes the whole file before it applies anything, and
\* applies nothing when a record is cut short
RECURSIVE ReplayWalAllOrNothing(_, _)
ReplayWalAllOrNothing(st, pos) ==
    LET w == st.walFile IN
    IF WalEndsCut(w, pos) THEN st
    ELSE IF pos > Len(w) THEN st
    ELSE IF w[pos].t # "len" THEN st
    ELSE LET p == SubSeq(w, pos + 1, pos + w[pos].n)
         IN  IF ~WalDecodes(p) THEN st
             ELSE ReplayWalAllOrNothing(ReplayEntry(st, p), pos + w[pos].n + 1)

\* SimpleDb._replay_wal from unit pos of the file on.  The loop ends at the
\* end of the file, at a record shorter than its length says (break), and at
\* a payload that does not decode (the exception is caught and logged).
RECURSIVE ReplayWal(_, _)
ReplayWal(st, pos) ==
    LET w == st.walFile IN
    IF pos > Len(w) THEN st
    ELSE IF w[pos].t # "len" THEN st
    ELSE IF pos + w[pos].n > Len(w) THEN st
    ELSE LET p == SubSeq(w, pos + 1, pos + w[pos].n)
         IN  IF ~WalDecodes(p) THEN st
             ELSE ReplayWal(ReplayEntry(st, p), pos + w[pos].n + 1)

\* _replay_wal at unit pos of the file: the loop ends (end of the file, a
\* record shorter than its length says, a payload that does not decode)
ReplayEnded(w, pos) ==
    IF pos > Len(w) THEN TRUE
    ELSE IF w[pos].t # "len" THEN TRUE
    ELSE IF pos + w[pos].n > Len(w) THEN TRUE
    ELSE ~WalDecodes(SubSeq(w, pos + 1, pos + w[pos].n))

\* _replay_wal from unit pos on: the last unit of the last record it applies
RECURSIVE ReplayReach(_, _)
ReplayReach(w, pos) ==
    IF ReplayEnded(w, pos) THEN pos - 1
    ELSE ReplayReach(w, pos + w[pos].n + 1)

\* SimpleDb._replay_wal from unit pos on ends in its `except Exception`
\* branch: a record that is complete by its length has a payload that does
\* not decode.  The error is logged and _replay_wal returns.
RECURSIVE ReplayRaises(_, _)
ReplayRaises(w, pos) ==
    IF pos > Len(w) THEN FALSE
    ELSE IF w[pos].t # "len" THEN FALSE
    ELSE IF pos + w[pos].n > Len(w) THEN FALSE
    ELSE LET p == SubSeq(w, pos + 1, pos + w[pos].n)
         IN  IF ~WalDecodes(p) THEN TRUE
             ELSE ReplayRaises(w, pos + w[pos].n + 1)

\* SimpleDb.__init__ on a directory: no families, the manifest loaded, the
\* WAL replayed
DbOpen(st) ==
    ReplayWal([st EXCEPT !.cfs = <<>>,
                         !.manifest = LoadManifest(st.manifestFile)], 1)

\* ------------------------------------------------------------------ state
VARIABLES
    status,        \* "open": an engine is running; "down": the process is gone;
                   \* "open, manifest without cfs": an engine is running
                   \* whose self.manifest is a JSON value without 'cfs'
    cfs,           \* self.cfs
    manifest,      \* self.manifest['cfs']
    manifestFile,  \* manifest.json
    sstFiles,      \* the *.sst files of each family's directory
    walFile,       \* wal.log
    \* history variables, read by the properties only
    lastOp,        \* the call that made the last step
    shadow,        \* per family and key: the last completed mutation ever
    live,          \* the same, of the running engine only
    logged,        \* the same, since the WAL was last emptied
    walShape,      \* "clean", "tornTail" or "tornMid": where cut records lie
    lastDown,      \* how the previous engine ended
    reopened,      \* the directory has been opened more than once
    crashed,       \* some engine ended without a final flush
    nMut,          \* put/delete calls so far
    pinned,        \* per family and key: the value read before a compact()
                   \* that a crash interrupted, until the key is mutated
    \* the two threads of an engine, moved by the thread-level actions only
    lockOwner,     \* self._lock: "none", "fg" or "mt"
    fg,            \* the foreground caller: where it is, in which call
    mt,            \* the maintenance thread: where it is in _maintenance_loop
    stopEvent,     \* self._stop_event
    mtSeen,        \* the size of self.cfs when _should_compact began to iterate
    \* stable storage
    walSynced      \* wal.log on stable storage: units, the number of units
                   \* of the file, from its start, that are there; onDisk,
                   \* per family and key the last completed mutation whose
                   \* record is among them; muts, the same at the last
                   \* completed fsync (histories, as logged)

vars == <<status, cfs, manifest, manifestFile, sstFiles, walFile, lastOp,
          shadow, live, logged, walShape, lastDown, reopened, crashed, nMut,
          pinned, lockOwner, fg, mt, stopEvent, mtSeen, walSynced>>

threads == <<lockOwner, fg, mt, stopEvent, mtSeen>>

\* The engine and its directory in the current state
St == [cfs |-> cfs, manifest |-> manifest, manifestFile |-> manifestFile,
       sstFiles |-> sstFiles, walFile |-> walFile]

Install(st) ==
    /\ cfs' = st.cfs
    /\ manifest' = st.manifest
    /\ manifestFile' = st.manifestFile
    /\ sstFiles' = st.sstFiles
    /\ walFile' = st.walFile

\* The process is gone: only the directory remains
Gone(st) ==
    /\ cfs' = <<>>
    /\ manifest' = <<>>
    /\ manifestFile' = st.manifestFile
    /\ sstFiles' = st.sstFiles
    /\ walFile' = st.walFile

NoHistory == [c \in CFNames |-> [k \in Keys |-> NoMut]]

\* The inputs of put and delete: every key and value in family "a", one key
\* and one value in family "b"; and the batches of write_batch, in family "a"
PutInputs ==
    {<<"put", "a", k, v>> : k \in Keys, v \in Values} \cup {<<"put", "b", <<1>>, <<7>>>>}
DeleteInputs ==
    {<<"delete", "a", k, None>> : k \in Keys} \cup {<<"delete", "b", <<1>>, None>>}
MutOps == PutInputs \cup DeleteInputs
Batches ==
    {<<a, b>> : a \in {o \in MutOps : o[2] = "a"}, b \in {o \in MutOps : o[2] = "a"}}

\* An operation changes the engine unless it is a delete in an unknown family
Applies(st, o) == o[1] = "put" \/ HasCf(st.cfs, o[2])

\* A history function after operation o was completed in state st
Track(h, st, o) ==
    IF Applies(st, o) THEN [h EXCEPT ![o[2]][o[3]] = o[4]] ELSE h

RECURSIVE TrackBatch(_, _, _)
TrackBatch(h, st, operations) ==
    IF operations = <<>> THEN h
    ELSE TrackBatch(Track(h, st, Head(operations)),
                    ApplyOp(st, Head(operations)), Tail(operations))

\* The pins after calls that mutate the keys of the operations
RECURSIVE Unpin(_, _)
Unpin(h, operations) ==
    IF operations = <<>> THEN h
    ELSE Unpin([h EXCEPT ![Head(operations)[2]][Head(operations)[3]] = NoMut],
               Tail(operations))

\* wal.log after it was created, and after an fsync of it
NothingSynced == [units |-> 0, onDisk |-> NoHistory, muts |-> NoHistory]
AllSynced == [units |-> Len(walFile), onDisk |-> logged, muts |-> logged]

\* A history function after the complete records at the start of tail, which
\* completed calls appended
RECURSIVE TrackTail(_, _)
TrackTail(h, tail) ==
    IF ReplayEnded(tail, 1) THEN h
    ELSE LET p == SubSeq(tail, 2, 1 + tail[1].n)
             value == IF p[2].s = "put" THEN FromHex(p[4].h) ELSE None
         IN  TrackTail([h EXCEPT ![p[1].s][FromHex(p[3].h)] = value],
                       SubSeq(tail, 2 + tail[1].n, Len(tail)))

\* A complete record was appended to the WAL
ShapeAfterAppend == IF walShape = "clean" THEN "clean" ELSE "tornMid"

\* The file ids left are enough for flush / compact
CanFlush(st) ==
    \A i \in 1..Len(st.cfs) :
        st.cfs[i].memtable # <<>> =>
            st.manifest[st.cfs[i].name].next_file_id < MaxFileId
CanCompact(st) ==
    \A i \in 1..Len(st.cfs) :
        Len(st.cfs[i].sstables) >= 2 =>
            st.manifest[st.cfs[i].name].next_file_id < MaxFileId

\* SimpleDb.open on an empty directory
Init ==
    /\ status = "open"
    /\ cfs = <<>>
    /\ manifest = <<>>
    /\ manifestFile = [exists |-> FALSE, form |-> "manifest", cfs |-> <<>>]
    /\ sstFiles = [c \in CFNames |-> <<>>]
    /\ walFile = <<>>
    /\ lastOp = "open"
    /\ shadow = NoHistory
    /\ live = NoHistory
    /\ logged = NoHistory
    /\ walShape = "clean"
    /\ lastDown = "none"
    /\ reopened = FALSE
    /\ crashed = FALSE
    /\ nMut = 0
    /\ pinned = NoHistory
    /\ lockOwner = "none"
    /\ fg = [pc |-> "idle", op |-> <<>>]
    /\ mt = "wait"
    /\ stopEvent = FALSE
    /\ mtSeen = 0
    /\ walSynced = NothingSynced

\* ---------------------------------------------------------------- actions
\* ensure_cf(cf)
EnsureCfCall(cf) ==
    /\ status = "open"
    /\ UNCHANGED <<threads, walSynced>>
    /\ Install(EnsureCf(St, cf))
    /\ lastOp' = "ensure_cf"
    /\ UNCHANGED <<status, shadow, live, logged, walShape, lastDown,
                   reopened, crashed, nMut, pinned>>

\* A put or delete call o that returns
Mutation(o) ==
    /\ status = "open"
    /\ UNCHANGED <<threads, walSynced>>
    /\ nMut < MaxMut
    /\ Install(ApplyOp(St, o))
    /\ lastOp' = o[1]
    /\ shadow' = Track(shadow, St, o)
    /\ live' = Track(live, St, o)
    /\ logged' = Track(logged, St, o)
    /\ walShape' = IF Applies(St, o) THEN ShapeAfterAppend ELSE walShape
    /\ nMut' = nMut + 1
    /\ pinned' = Unpin(pinned, <<o>>)
    /\ UNCHANGED <<status, lastDown, reopened, crashed>>

\* put(cf, key, value)
Put(cf, key, value) == Mutation(<<"put", cf, key, value>>)

\* delete(cf, key)
Delete(cf, key) == Mutation(<<"delete", cf, key, None>>)

\* write_batch(batch)
WriteBatch(batch) ==
    /\ status = "open"
    /\ UNCHANGED <<threads, walSynced>>
    /\ nMut + Len(batch) <= MaxMut
    /\ Install(DbWriteBatch(St, batch))
    /\ lastOp' = "write_batch"
    /\ shadow' = TrackBatch(shadow, St, batch)
    /\ live' = TrackBatch(live, St, batch)
    /\ logged' = TrackBatch(logged, St, batch)
    /\ walShape' = IF walFile' # walFile THEN ShapeAfterAppend ELSE walShape
    /\ nMut' = nMut + Len(batch)
    /\ pinned' = Unpin(pinned, batch)
    /\ UNCHANGED <<status, lastDown, reopened, crashed>>

\* flush()
Flush ==
    /\ status = "open"
    /\ UNCHANGED threads
    /\ walSynced' = NothingSynced
    /\ CanFlush(St)
    /\ Install(DbFlush(St))
    /\ lastOp' = "flush"
    /\ logged' = NoHistory
    /\ walShape' = "clean"
    /\ UNCHANGED <<status, shadow, live, lastDown, reopened, crashed, nMut,
                   pinned>>

\* compact()
Compact ==
    /\ status = "open"
    /\ UNCHANGED <<threads, walSynced>>
    /\ CanCompact(St)
    /\ Install(DbCompact(St))
    /\ lastOp' = IF DbCompactRaises(St) THEN "compact raised" ELSE "compact"
    /\ UNCHANGED <<status, shadow, live, logged, walShape, lastDown,
                   reopened, crashed, nMut, pinned>>

\* close(flush): the final flush when asked for, then the engine is gone
Close(flush) ==
    /\ status = "open"
    /\ UNCHANGED threads
    /\ walSynced' = IF flush THEN NothingSynced ELSE walSynced
    /\ flush => CanFlush(St)
    /\ Gone(IF flush THEN DbFlush(St) ELSE St)
    /\ status' = "down"
    /\ lastOp' = "close"
    /\ live' = NoHistory
    /\ logged' = IF flush THEN NoHistory ELSE logged
    /\ walShape' = IF flush THEN "clean" ELSE walShape
    /\ lastDown' = IF flush THEN "close" ELSE "abort"
    /\ crashed' = (crashed \/ ~flush)
    /\ UNCHANGED <<shadow, reopened, nMut, pinned>>

\* The process is killed between two calls
Crash ==
    /\ status \in {"open", "open, manifest without cfs"}
    /\ UNCHANGED <<threads, walSynced>>
    /\ Gone(St)
    /\ status' = "down"
    /\ lastOp' = "crash"
    /\ live' = NoHistory
    /\ lastDown' = "crash"
    /\ crashed' = TRUE
    /\ UNCHANGED <<shadow, logged, walShape, reopened, nMut, pinned>>

\* The process is killed inside the WAL write of put or delete o: the call
\* does not return, and the first cut units of its record are in the file.
CrashInWrite(o) ==
    /\ status = "open"
    /\ UNCHANGED <<threads, walSynced>>
    /\ nMut < MaxMut
    /\ Applies(St, o)
    /\ LET before == IF o[1] = "put" THEN EnsureCf(St, o[2]) ELSE St
           record == WalRecord(o[2], o[1], o[3], o[4])
       IN  \E cut \in 1..(Len(record) - 1) :
              Gone([before EXCEPT !.walFile = @ \o SubSeq(record, 1, cut)])
    /\ status' = "down"
    /\ lastOp' = "crash"
    /\ live' = NoHistory
    /\ walShape' = IF walShape = "clean" THEN "tornTail" ELSE "tornMid"
    /\ lastDown' = "crash"
    /\ crashed' = TRUE
    /\ nMut' = nMut + 1
    /\ pinned' = Unpin(pinned, <<o>>)
    /\ UNCHANGED <<shadow, logged, reopened>>

\* SimpleDb.open on the directory the previous engine left
Reopen ==
    /\ status = "down"
    /\ ManifestHasCfs(manifestFile)
    /\ UNCHANGED <<threads, walSynced>>
    /\ Install(DbOpen(St))
    /\ status' = "open"
    /\ lastOp' = "open"
    /\ reopened' = TRUE
    /\ UNCHANGED <<shadow, live, logged, walShape, lastDown, crashed, nMut,
                   pinned>>

Next ==
    \/ \E c \in CFNames : EnsureCfCall(c)
    \/ \E o \in PutInputs : Put(o[2], o[3], o[4])
    \/ \E o \in DeleteInputs : Delete(o[2], o[3])
    \/ \E b \in Batches : WriteBatch(b)
    \/ Flush
    \/ Compact
    \/ \E f \in BOOLEAN : Close(f)
    \/ Crash
    \/ \E o \in MutOps : CrashInWrite(o)
    \/ Reopen

Spec == Init /\ [][Next]_vars

\* ------------------------------------------- a crash inside write_batch
\* The process is killed inside write_batch(batch), between two operations
\* of its loop: the operations before that point have run as the put and
\* delete calls they are.
CrashInBatch(batch) ==
    /\ status = "open"
    /\ UNCHANGED <<threads, walSynced>>
    /\ nMut + Len(batch) <= MaxMut
    /\ \E done \in 1..(Len(batch) - 1) :
          /\ Gone(DbWriteBatch(St, SubSeq(batch, 1, done)))
          /\ shadow' = TrackBatch(shadow, St, SubSeq(batch, 1, done))
          /\ logged' = TrackBatch(logged, St, SubSeq(batch, 1, done))
    /\ status' = "down"
    /\ lastOp' = "crash"
    /\ live' = NoHistory
    /\ walShape' = IF walFile' # walFile THEN ShapeAfterAppend ELSE walShape
    /\ lastDown' = "crash"
    /\ crashed' = TRUE
    /\ nMut' = nMut + Len(batch)
    /\ pinned' = Unpin(pinned, batch)
    /\ UNCHANGED reopened

NextBatchCrash ==
    \/ Next
    \/ \E b \in Batches : CrashInBatch(b)

SpecBatchCrash == Init /\ [][NextBatchCrash]_vars

\* ------------------------------------------- a WAL append that fails
\* put or delete o raises in _write_wal_entry (the write to wal.log fails,
\* with none or a part of the record written): ensure_cf and the memtable
\* update before it have run, and the engine goes on.
MutationFails(o) ==
    /\ status = "open"
    /\ UNCHANGED <<threads, walSynced>>
    /\ nMut < MaxMut
    /\ Applies(St, o)
    /\ LET before == IF o[1] = "put" THEN EnsureCf(St, o[2]) ELSE St
           applied == SetMemtable(before, o[2], o[3], o[4])
           record == WalRecord(o[2], o[1], o[3], o[4])
       IN  \E cut \in 0..(Len(record) - 1) :
              /\ Install([applied EXCEPT !.walFile = @ \o SubSeq(record, 1, cut)])
              /\ walShape' = IF cut = 0 THEN walShape
                             ELSE IF walShape = "clean" THEN "tornTail"
                             ELSE "tornMid"
    /\ lastOp' = "write failed"
    /\ nMut' = nMut + 1
    /\ pinned' = Unpin(pinned, <<o>>)
    /\ UNCHANGED <<status, shadow, live, logged, lastDown, reopened, crashed>>

NextWriteFails ==
    \/ Next
    \/ \E o \in MutOps : MutationFails(o)

SpecWriteFails == Init /\ [][NextWriteFails]_vars

\* ---------------------------------- crashes inside flush() and compact()
\* The loop of SimpleDb.flush over the first j families of self.cfs
RECURSIVE FlushUpTo(_, _)
FlushUpTo(st, j) ==
    IF j = 0 THEN st
    ELSE LET before == FlushUpTo(st, j - 1)
             name == before.cfs[j].name
             r == FlushMemtable(before.cfs[j], before.sstFiles[name],
                                before.manifest[name])
         IN  [before EXCEPT !.cfs[j] = r.cf,
                            !.sstFiles[name] = r.dir,
                            !.manifest[name] = r.ment]

\* The loop of SimpleDb.compact over the first j families of self.cfs
RECURSIVE CompactUpTo(_, _)
CompactUpTo(st, j) ==
    IF j = 0 THEN [st |-> st, raised |-> FALSE]
    ELSE LET before == CompactUpTo(st, j - 1)
             name == before.st.cfs[j].name
             r == CompactSstables(before.st.cfs[j], before.st.sstFiles[name],
                                  before.st.manifest[name])
         IN  IF before.raised THEN before
             ELSE [st |-> [before.st EXCEPT !.cfs[j] = r.cf,
                                            !.sstFiles[name] = r.dir,
                                            !.manifest[name] = r.ment],
                   raised |-> r.raised]

\* compact_sstables of family i, stopped after the compacted file is written
\* and n files of the list are unlinked: the family's directory then
CompactStopped(st, i, n) ==
    LET name == st.cfs[i].name
        new == CompactedFile(st.cfs[i], st.sstFiles[name], st.manifest[name])
    IN  UnlinkFirst((new.name :> new.bytes) @@ st.sstFiles[name],
                    st.cfs[i].sstables, n)

\* The first family of self.cfs that compact() has work for, 0 if none
FirstToCompact(st) ==
    IF \A i \in 1..Len(st.cfs) : Len(st.cfs[i].sstables) < 2 THEN 0
    ELSE CHOOSE i \in 1..Len(st.cfs) :
            /\ Len(st.cfs[i].sstables) >= 2
            /\ \A j \in 1..(i - 1) : Len(st.cfs[j].sstables) < 2

\* The values get returns now for the keys whose last completed mutation is
\* the put of that value
Pins ==
    [c \in CFNames |-> [k \in Keys |->
        IF shadow[c][k] \in Values /\ DbGet(St, c, k) = shadow[c][k]
        THEN shadow[c][k] ELSE NoMut]]

\* The process is killed inside flush(): after flush_memtable of the family
\* at position point wrote its segment file (manifest.json and wal.log are
\* as before the call), or, for the position after the last family, after
\* _save_manifest and before the WAL file is unlinked.
CrashInFlush ==
    /\ status = "open"
    /\ UNCHANGED <<threads, walSynced>>
    /\ CanFlush(St)
    /\ \E point \in 1..(Len(cfs) + 1) :
          IF point <= Len(cfs)
          THEN /\ cfs[point].memtable # <<>>
               /\ Gone(FlushUpTo(St, point))
               /\ lastDown' = "crash in flush, manifest not saved"
          ELSE /\ Gone(SaveManifest(FlushFrom(St, 1)))
               /\ lastDown' = "crash in flush, manifest saved"
    /\ status' = "down"
    /\ lastOp' = "crash"
    /\ live' = NoHistory
    /\ crashed' = TRUE
    /\ UNCHANGED <<shadow, logged, walShape, reopened, nMut, pinned>>

\* The process is killed inside compact(): the families before position i
\* are compacted, the compacted file of family i is written and n of its old
\* files are unlinked; manifest.json is as before the call.
CrashInCompact ==
    /\ status = "open"
    /\ UNCHANGED <<threads, walSynced>>
    /\ CanCompact(St)
    /\ \E i \in 1..Len(cfs) : \E n \in 0..Len(cfs[i].sstables) :
          LET before == CompactUpTo(St, i - 1)
              stopped == CompactStopped(before.st, i, n)
          IN  /\ Len(cfs[i].sstables) >= 2
              /\ ~before.raised
              /\ ~stopped.raised
              /\ Gone([before.st EXCEPT !.sstFiles[cfs[i].name] = stopped.dir])
              /\ lastDown' = IF n = 0 /\ i = FirstToCompact(St)
                             THEN "crash in compact, nothing unlinked"
                             ELSE "crash in compact"
    /\ status' = "down"
    /\ lastOp' = "crash"
    /\ live' = NoHistory
    /\ crashed' = TRUE
    /\ pinned' = Pins
    /\ UNCHANGED <<shadow, logged, walShape, reopened, nMut>>

\* compact() raises after the compacted file of the first family it works on
\* is written and before an old file is unlinked (fsync of the file or of the
\* directory fails): the engine goes on.
FailInCompact ==
    /\ status = "open"
    /\ UNCHANGED <<threads, walSynced>>
    /\ CanCompact(St)
    /\ FirstToCompact(St) # 0
    /\ LET i == FirstToCompact(St)
       IN  Install([St EXCEPT !.sstFiles[cfs[i].name] =
                                    CompactStopped(St, i, 0).dir])
    /\ lastOp' = "compact failed"
    /\ UNCHANGED <<status, shadow, live, logged, walShape, lastDown,
                   reopened, crashed, nMut, pinned>>

\* flush() raises and the engine goes on: in flush_memtable of the family at
\* position point, after its segment file is written (fsync of the file or
\* of the directory fails; the manifest entry and the memtable are as
\* before), or, for the position after the last family, in _save_manifest
\* before manifest.json is replaced.  The lines that unlink wal.log are not
\* reached.
FailInFlush ==
    /\ status = "open"
    /\ UNCHANGED <<threads, walSynced>>
    /\ CanFlush(St)
    /\ \E point \in 1..(Len(cfs) + 1) :
          IF point <= Len(cfs)
          THEN LET before == FlushUpTo(St, point - 1)
                   name == cfs[point].name
                   r == FlushMemtable(before.cfs[point], before.sstFiles[name],
                                      before.manifest[name])
               IN  /\ cfs[point].memtable # <<>>
                   /\ Install([before EXCEPT !.sstFiles[name] = r.dir])
          ELSE Install(FlushFrom(St, 1))
    /\ lastOp' = "flush failed"
    /\ UNCHANGED <<status, shadow, live, logged, walShape, lastDown,
                   reopened, crashed, nMut, pinned>>

\* The calls between the crashes: family "a" in full, family "b" made by a put
NextCrashPoints ==
    \/ EnsureCfCall("a")
    \/ \E o \in PutInputs : Put(o[2], o[3], o[4])
    \/ \E k \in Keys : Delete("a", k)
    \/ Flush
    \/ Compact
    \/ Crash
    \/ Reopen
    \/ CrashInFlush
    \/ CrashInCompact
    \/ FailInCompact

SpecCrashPoints == Init /\ [][NextCrashPoints]_vars

\* The calls around flush(): puts and deletes, flush() done, failing and cut
\* short by a crash, and reopen
NextFlushFaults ==
    \/ \E o \in PutInputs : Put(o[2], o[3], o[4])
    \/ \E k \in Keys : Delete("a", k)
    \/ Flush
    \/ FailInFlush
    \/ CrashInFlush
    \/ Crash
    \/ Reopen

SpecFlushFaults == Init /\ [][NextFlushFaults]_vars

\* ------------------------------------------------ a damaged manifest
\* While no engine runs, manifest.json is removed or overwritten: by bytes
\* that are not JSON, or by a JSON value that is not a manifest.
ManifestDamaged ==
    /\ status = "down"
    /\ lastOp # "manifest damaged"
    /\ UNCHANGED <<threads, walSynced>>
    /\ \/ manifestFile' = [exists |-> FALSE, form |-> "manifest", cfs |-> <<>>]
       \/ \E form \in ManifestForms \ {"manifest"} :
             manifestFile' = [exists |-> TRUE, form |-> form, cfs |-> <<>>]
    /\ lastOp' = "manifest damaged"
    /\ UNCHANGED <<status, cfs, manifest, sstFiles, walFile, shadow, live,
                   logged, walShape, lastDown, reopened, crashed, nMut, pinned>>

\* SimpleDb.__init__ when _load_manifest returns a JSON value without 'cfs':
\* the first record of the replay calls ensure_cf, which adds the family to
\* self.cfs and raises on self.manifest['cfs']; the replay catches the
\* exception and ends, and open() returns.
DbOpenOtherJson(st) ==
    LET w == st.walFile
        first == IF ReplayEnded(w, 1) THEN <<>>
                 ELSE <<NewColumnFamily(w[2].s, st.sstFiles[w[2].s])>>
    IN  [st EXCEPT !.cfs = first, !.manifest = <<>>]

\* SimpleDb.open on a directory whose manifest.json is such a JSON value
ReopenOtherJson ==
    /\ status = "down"
    /\ ~ManifestHasCfs(manifestFile)
    /\ UNCHANGED <<threads, walSynced>>
    /\ Install(DbOpenOtherJson(St))
    /\ status' = "open, manifest without cfs"
    /\ lastOp' = "open"
    /\ reopened' = TRUE
    /\ UNCHANGED <<shadow, live, logged, walShape, lastDown, crashed, nMut,
                   pinned>>

\* put(cf, key, value) of such an engine: for a family it does not hold,
\* ensure_cf adds the family and raises KeyError; for a family it holds the
\* put is done
PutOtherJson(cf, key, value) ==
    /\ status = "open, manifest without cfs"
    /\ UNCHANGED <<threads, walSynced>>
    /\ nMut < MaxMut
    /\ IF HasCf(cfs, cf)
       THEN /\ Install(DbPut(St, cf, key, value))
            /\ lastOp' = "put"
            /\ shadow' = [shadow EXCEPT ![cf][key] = value]
            /\ live' = [live EXCEPT ![cf][key] = value]
            /\ logged' = [logged EXCEPT ![cf][key] = value]
            /\ walShape' = ShapeAfterAppend
       ELSE /\ Install([St EXCEPT !.cfs =
                          Append(@, NewColumnFamily(cf, sstFiles[cf]))])
            /\ lastOp' = "put raised"
            /\ UNCHANGED <<shadow, live, logged, walShape>>
    /\ nMut' = nMut + 1
    /\ pinned' = Unpin(pinned, <<<<"put", cf, key, value>>>>)
    /\ UNCHANGED <<status, lastDown, reopened, crashed>>

NextManifest ==
    \/ \E o \in PutInputs : Put(o[2], o[3], o[4])
    \/ Flush
    \/ Crash
    \/ Reopen
    \/ ManifestDamaged
    \/ ReopenOtherJson
    \/ \E o \in PutInputs : PutOtherJson(o[2], o[3], o[4])

SpecManifest == Init /\ [][NextManifest]_vars

\* ------------------------------------------------------- power loss
\* flush_wal(): wal.flush() and os.fsync of wal.log
FlushWalCall ==
    /\ status = "open"
    /\ UNCHANGED threads
    /\ walSynced' = AllSynced
    /\ lastOp' = "flush_wal"
    /\ UNCHANGED <<cfs, manifest, manifestFile, sstFiles, walFile, status,
                   shadow, live, logged, walShape, lastDown, reopened, crashed,
                   nMut, pinned>>

\* The machine loses power while the engine runs: wal.log keeps the units
\* that are on stable storage and, of the units written since, the first
\* ones up to some unit; what it keeps is on stable storage
PowerLoss ==
    /\ status = "open"
    /\ UNCHANGED threads
    /\ \E kept \in walSynced.units..Len(walFile) :
          LET remains == SubSeq(walFile, 1, kept)
              tail == SubSeq(walFile, walSynced.units + 1, kept)
          IN  /\ Gone([St EXCEPT !.walFile = remains])
              /\ logged' = TrackTail(walSynced.onDisk, tail)
              /\ walSynced' = [units |-> kept, onDisk |-> logged',
                               muts |-> walSynced.muts]
              /\ walShape' = IF kept = Len(walFile) THEN walShape
                             ELSE IF ReplayReach(remains, 1) = kept THEN "clean"
                             ELSE IF WalEndsCut(remains, 1) THEN "tornTail"
                             ELSE "tornMid"
    /\ status' = "down"
    /\ lastOp' = "power loss"
    /\ live' = NoHistory
    /\ lastDown' = "power loss"
    /\ crashed' = TRUE
    /\ UNCHANGED <<shadow, reopened, nMut, pinned>>

NextPowerLoss ==
    \/ \E o \in PutInputs : Put(o[2], o[3], o[4])
    \/ \E k \in Keys : Delete("a", k)
    \/ FlushWalCall
    \/ Flush
    \/ PowerLoss
    \/ Reopen

SpecPowerLoss == Init /\ [][NextPowerLoss]_vars

\* ------------------------------------------------------------- threads
\* One foreground caller and the maintenance thread of a running engine,
\* step by step.  A call of the foreground waits for self._lock, runs its
\* body holding it, and releases it; _maintenance_loop waits on the stop
\* event, calls flush_wal, checks whether a compaction is due, and calls
\* compact.  The history variables of the sequential properties are not
\* kept here.
MaxThreadMut == 4
MaxThreadFileId == 8

engine == <<cfs, manifest, manifestFile, sstFiles, walFile>>
history == <<shadow, live, logged, walShape, lastDown, reopened, crashed, pinned>>

\* The calls of the foreground caller
ThreadBatch == << <<"delete", "a", <<1>>, None>>, <<"put", "a", <<1>>, <<8>>>> >>
ThreadCalls ==
    {<<"put", "a", <<1>>, <<7>>>>, <<"delete", "a", <<1>>, None>>,
     <<"write_batch", ThreadBatch>>, <<"flush">>, <<"compact">>, <<"close">>}

\* The mutations a call makes
Mutations(call) ==
    IF call[1] \in {"put", "delete"} THEN 1
    ELSE IF call[1] = "write_batch" THEN Len(call[2])
    ELSE 0

\* The body of a call, run under the lock
CallBody(st, call) ==
    IF call[1] \in {"put", "delete"} THEN ApplyOp(st, call)
    ELSE IF call[1] = "write_batch" THEN DbWriteBatch(st, call[2])
    ELSE IF call[1] = "flush" THEN DbFlush(st)
    ELSE IF call[1] = "compact" THEN DbCompact(st)
    ELSE st

\* The file ids left are enough for the body of a call
ThreadCanRun(st, call) ==
    \A i \in 1..Len(st.cfs) :
        LET writes == IF call[1] \in {"flush", "close"}
                      THEN st.cfs[i].memtable # <<>>
                      ELSE IF call[1] = "compact"
                      THEN Len(st.cfs[i].sstables) >= 2
                      ELSE FALSE
        IN  writes => st.manifest[st.cfs[i].name].next_file_id < MaxThreadFileId

\* `with self._lock` (threading.RLock): thread t gets the lock when no
\* other thread owns it
LockFree(t) == lockOwner \in {"none", t}

\* The end of `with self._lock` of the outermost call of thread t
Release(t) == lockOwner' = IF lockOwner = t THEN "none" ELSE lockOwner

\* The foreground calls an operation: it has to take the lock first
FgCall(call) ==
    /\ status = "open"
    /\ fg.pc = "idle"
    /\ nMut + Mutations(call) <= MaxThreadMut
    /\ fg' = [pc |-> "waiting", op |-> call]
    /\ UNCHANGED <<engine, history, status, lastOp, nMut, lockOwner, mt, stopEvent, mtSeen, walSynced>>

\* `with self._lock:` of put, delete, write_batch, flush, compact and close
FgEnter ==
    /\ fg.pc = "waiting"
    /\ LockFree("fg")
    /\ lockOwner' = "fg"
    /\ fg' = [fg EXCEPT !.pc = "in"]
    /\ UNCHANGED <<engine, history, status, lastOp, nMut, mt, stopEvent, mtSeen, walSynced>>

\* The body of put, delete, write_batch, flush or compact, and the release
FgBody ==
    /\ fg.pc = "in"
    /\ fg.op[1] # "close"
    /\ ThreadCanRun(St, fg.op)
    /\ Install(CallBody(St, fg.op))
    /\ Release("fg")
    /\ fg' = [pc |-> "idle", op |-> <<>>]
    /\ lastOp' = fg.op[1]
    /\ nMut' = nMut + Mutations(fg.op)
    /\ walSynced' = IF fg.op[1] = "flush" THEN NothingSynced ELSE walSynced
    /\ UNCHANGED <<history, status, mt, stopEvent, mtSeen>>

\* close(): self._stop_event.set()
CloseSetStop ==
    /\ fg.pc = "in"
    /\ fg.op[1] = "close"
    /\ stopEvent' = TRUE
    /\ fg' = [fg EXCEPT !.pc = "joining"]
    /\ UNCHANGED <<engine, history, status, lastOp, nMut, lockOwner, mt, mtSeen, walSynced>>

\* A join without a timeout returns only when the thread has ended
JoinReturnsAtThreadEnd == mt \in {"done", "dead"}

\* self._maintenance_thread.join(timeout=2) returns: the thread has ended
\* (or is_alive() is false), or it waits for the lock that close() holds
\* and the timeout passes
JoinReturns == mt \in {"done", "dead", "flush_wal", "compact"}

\* close(): the join of the maintenance thread
CloseJoin ==
    /\ fg.pc = "joining"
    /\ JoinReturns
    /\ fg' = [fg EXCEPT !.pc = "flushing"]
    /\ UNCHANGED <<engine, history, status, lastOp, nMut, lockOwner, mt, stopEvent, mtSeen, walSynced>>

\* close(): the final flush, the WAL closed, the lock released
CloseFinish ==
    /\ fg.pc = "flushing"
    /\ ThreadCanRun(St, fg.op)
    /\ Install(DbFlush(St))
    /\ Release("fg")
    /\ fg' = [pc |-> "closed", op |-> <<>>]
    /\ status' = "closed"
    /\ lastOp' = "close"
    /\ walSynced' = NothingSynced
    /\ UNCHANGED <<history, nMut, mt, stopEvent, mtSeen>>

\* _maintenance_loop: self._stop_event.wait(interval) returns
MtWake ==
    /\ mt = "wait"
    /\ mt' = IF stopEvent THEN "done" ELSE "flush_wal"
    /\ UNCHANGED <<engine, history, status, lastOp, nMut, lockOwner, fg, stopEvent, mtSeen, walSynced>>

\* flush_wal taking the lock without waiting for it
FlushWalEnterNoLock ==
    /\ UNCHANGED lockOwner

\* flush_wal: `with self._lock:`
FlushWalEnter ==
    /\ LockFree("mt")
    /\ lockOwner' = "mt"

\* _maintenance_loop: self.flush_wal() is entered
MtFlushWalEnter ==
    /\ mt = "flush_wal"
    /\ FlushWalEnter
    /\ mt' = "fsync"
    /\ UNCHANGED <<engine, history, status, lastOp, nMut, fg, stopEvent, mtSeen, walSynced>>

\* flush_wal: wal.flush() and os.fsync, done, or raising on the file that
\* close() has closed (an exception is suppressed by the loop); the lock is
\* released
MtFsync ==
    /\ mt = "fsync"
    /\ Release("mt")
    /\ mt' = "check"
    /\ walSynced' = IF status = "closed" THEN walSynced ELSE AllSynced
    /\ UNCHANGED <<engine, history, status, lastOp, nMut, fg, stopEvent, mtSeen>>

\* SimpleDb._should_compact
ShouldCompact(st) == \E i \in 1..Len(st.cfs) : Len(st.cfs[i].sstables) > 3

\* _maintenance_loop: the compaction interval has passed or not; when it
\* has, _should_compact() is called and begins to iterate self.cfs.values()
\* (without the lock) over the families there are at that moment
MtCheck ==
    /\ mt = "check"
    /\ \E due \in BOOLEAN :
          /\ mt' = IF due THEN "should_compact" ELSE "wait"
          /\ mtSeen' = IF due THEN Len(cfs) ELSE 0
    /\ UNCHANGED <<engine, history, status, lastOp, nMut, lockOwner, fg, stopEvent,
                   walSynced>>

\* _should_compact() goes through the families and returns: true at the
\* first family with more than 3 segments, false at the end.  When the
\* foreground has added a family since the iteration began, the dict
\* iterator raises RuntimeError at its next step; the call is outside the
\* loop's contextlib.suppress blocks, so the exception ends the thread.
MtShouldCompact ==
    /\ mt = "should_compact"
    /\ \/ /\ Len(cfs) # mtSeen
          /\ mt' = "dead"
       \/ /\ \E i \in 1..Len(cfs) : i <= mtSeen /\ Len(cfs[i].sstables) > 3
          /\ mt' = "compact"
       \/ /\ Len(cfs) = mtSeen
          /\ ~ShouldCompact(St)
          /\ mt' = "wait"
    /\ mtSeen' = 0
    /\ UNCHANGED <<engine, history, status, lastOp, nMut, lockOwner, fg, stopEvent,
                   walSynced>>

\* compact(): `with self._lock:`, in the maintenance thread
MtCompactEnter ==
    /\ mt = "compact"
    /\ LockFree("mt")
    /\ lockOwner' = "mt"
    /\ mt' = "compacting"
    /\ UNCHANGED <<engine, history, status, lastOp, nMut, fg, stopEvent, mtSeen, walSynced>>

\* compact() in the maintenance thread, and the release
MtCompact ==
    /\ mt = "compacting"
    /\ ThreadCanRun(St, <<"compact">>)
    /\ Install(DbCompact(St))
    /\ Release("mt")
    /\ mt' = "wait"
    /\ lastOp' = "maintenance compact"
    /\ UNCHANGED <<history, status, nMut, fg, stopEvent, mtSeen, walSynced>>

NextThreads ==
    \/ \E call \in ThreadCalls : FgCall(call)
    \/ FgEnter
    \/ FgBody
    \/ CloseSetStop
    \/ CloseJoin
    \/ CloseFinish
    \/ MtWake
    \/ MtFlushWalEnter
    \/ MtFsync
    \/ MtCheck
    \/ MtShouldCompact
    \/ MtCompactEnter
    \/ MtCompact

SpecThreads == Init /\ [][NextThreads]_vars

\* ------------------------------------------------- a loaded scheduler
\* The engine after `rounds` rounds of put("a", ...), flush(), with a
\* put("b", ...) before the flush in the first nb rounds: family "a" has
\* `rounds` segments, family "b" has nb
RECURSIVE Loaded(_, _, _)
Loaded(st, rounds, nb) ==
    IF rounds = 0 THEN st
    ELSE LET before == Loaded(st, rounds - 1, nb)
             withA == DbPut(before, "a", <<1>>, <<7>>)
             withB == IF rounds <= nb THEN DbPut(withA, "b", <<1>>, <<7>>)
                      ELSE withA
         IN  DbFlush(withB)

\* The threads of an engine that has made those calls since it was opened on
\* an empty directory: family "a" has 4 segments, family "b" up to 3
InitLoaded ==
    /\ \E nb \in 0..3 :
          LET st == Loaded([cfs |-> <<>>, manifest |-> <<>>,
                            manifestFile |-> [exists |-> FALSE,
                                              form |-> "manifest", cfs |-> <<>>],
                            sstFiles |-> [c \in CFNames |-> <<>>],
                            walFile |-> <<>>], 4, nb)
          IN  /\ cfs = st.cfs
              /\ manifest = st.manifest
              /\ manifestFile = st.manifestFile
              /\ sstFiles = st.sstFiles
              /\ walFile = st.walFile
    /\ status = "open"
    /\ lastOp = "flush"
    /\ shadow = NoHistory
    /\ live = NoHistory
    /\ logged = NoHistory
    /\ walShape = "clean"
    /\ lastDown = "none"
    /\ reopened = FALSE
    /\ crashed = FALSE
    /\ nMut = 0
    /\ pinned = NoHistory
    /\ lockOwner = "none"
    /\ fg = [pc |-> "idle", op |-> <<>>]
    /\ mt = "wait"
    /\ stopEvent = FALSE
    /\ mtSeen = 0
    /\ walSynced = NothingSynced

SpecScheduler == InitLoaded /\ [][NextThreads]_vars

\* ------------------------------------------------------------- startup
\* SimpleDb.open step by step, in the thread-level model: the process of a
\* running or closed engine ends, and a new process opens the directory.
\* __init__ resets the engine, creates the thread object, replays the WAL
\* record by record and starts the thread.

\* A thread object that is started as soon as it is created
ThreadStartedAtOnce == "wait"

\* The maintenance thread while __init__ replays: threading.Thread(...) was
\* called, start() was not
ThreadBeforeReplay == "not started"

\* The process ends (kill, or exit after close): its threads end with it
ProcessKilled ==
    /\ status \in {"open", "closed"}
    /\ Gone(St)
    /\ status' = "down"
    /\ lastOp' = "crash"
    /\ lockOwner' = "none"
    /\ fg' = [pc |-> "idle", op |-> <<>>]
    /\ mt' = "none"
    /\ stopEvent' = FALSE
    /\ mtSeen' = 0
    /\ UNCHANGED <<history, nMut, walSynced>>

\* SimpleDb.__init__ up to the call of _replay_wal
OpenBegin ==
    /\ status = "down"
    /\ cfs' = <<>>
    /\ manifest' = LoadManifest(manifestFile)
    /\ status' = "opening"
    /\ lastOp' = "open"
    /\ lockOwner' = "none"
    /\ fg' = [pc |-> "replaying", op |-> <<"open", 1>>]
    /\ mt' = ThreadBeforeReplay
    /\ stopEvent' = FALSE
    /\ UNCHANGED <<manifestFile, sstFiles, walFile, history, nMut, mtSeen, walSynced>>

\* One turn of the loop of _replay_wal: the record at the position of the
\* replay is applied; its ensure_cf takes the lock for a new family
ReplayStep ==
    /\ fg.pc = "replaying"
    /\ ~ReplayEnded(walFile, fg.op[2])
    /\ LET pos == fg.op[2]
           p == SubSeq(walFile, pos + 1, pos + walFile[pos].n)
       IN  /\ HasCf(cfs, p[1].s) \/ LockFree("fg")
           /\ Install(ReplayEntry(St, p))
           /\ fg' = [fg EXCEPT !.op = <<"open", pos + walFile[pos].n + 1>>]
    /\ UNCHANGED <<history, status, lastOp, nMut, lockOwner, mt, stopEvent, mtSeen, walSynced>>

\* The replay has ended: self._maintenance_thread.start(), open() returns
OpenFinish ==
    /\ fg.pc = "replaying"
    /\ ReplayEnded(walFile, fg.op[2])
    /\ status' = "open"
    /\ fg' = [pc |-> "idle", op |-> <<>>]
    /\ mt' = "wait"
    /\ UNCHANGED <<engine, history, lastOp, nMut, lockOwner, stopEvent, mtSeen, walSynced>>

NextStartup ==
    \/ NextThreads
    \/ ProcessKilled
    \/ OpenBegin
    \/ ReplayStep
    \/ OpenFinish

SpecStartup == Init /\ [][NextStartup]_vars

\* ------------------------------------------------------------- properties
\* What get is to return for a history entry: the value of a put, else absent
Visible(h) == IF h \in Values THEN h ELSE None

\* The memtable of family c holds exactly the entry h for key k
\* (h = NoMut: no entry at all)
MemtableHolds(c, k, h) ==
    IF h = NoMut
    THEN ~(HasCf(cfs, c) /\ MemHas(CfOf(cfs, c).memtable, k))
    ELSE /\ HasCf(cfs, c)
         /\ MemHas(CfOf(cfs, c).memtable, k)
         /\ MemGet(CfOf(cfs, c).memtable, k) = h

\* The keys with prefix p whose last mutation is a put, with that value, in
\* key order
ExpectedScan(c, p) ==
    LET sorted == SortNames(Keys)
        all == [i \in 1..Len(sorted) |-> <<sorted[i], shadow[c][sorted[i]]>>]
    IN  SelectSeq(all, LAMBDA e : StartsWith(e[1], p) /\ e[2] \in Values)

\* C1: on one engine that never crashed, get(cf, k) returns the value of the
\* most recent put of k, or absent when the most recent mutation of k is a
\* delete or k was never written.
C1_GetReturnsLatest ==
    (status = "open" /\ ~reopened) =>
        \A c \in CFNames, k \in Keys : DbGet(St, c, k) = Visible(shadow[c][k])

\* C2: tombstone precedence: once the most recent mutation of k is a delete,
\* get(cf, k) returns absent in every later state of the engine, whatever
\* flushes lie between the put and the delete or after the delete.
C2_TombstonePrecedence ==
    (status = "open" /\ ~reopened) =>
        \A c \in CFNames, k \in Keys :
            shadow[c][k] = None => DbGet(St, c, k) = None

\* C3: round trip: after put(cf, k, v) on an engine, get(cf, k) returns v for
\* as long as k is not mutated again, before and after any number of flushes.
C3_RoundTrip ==
    status = "open" =>
        \A c \in CFNames, k \in Keys :
            live[c][k] \in Values => DbGet(St, c, k) = live[c][k]

\* C3 witness: the key was put, later flushed into the newest of two segments
\* whose older one holds another value for it, and get returns the put value.
C3_Witness ==
    /\ status = "open"
    /\ lastOp = "flush"
    /\ live["a"][<<1>>] = <<8>>
    /\ HasCf(cfs, "a")
    /\ CfOf(cfs, "a").memtable = <<>>
    /\ Len(CfOf(cfs, "a").sstables) = 2
    /\ ReadFromSstable(sstFiles["a"], CfOf(cfs, "a").sstables[1], <<1>>) = <<7>>
    /\ DbGet(St, "a", <<1>>) = <<8>>

\* C4: crash recovery: after the process is killed between calls and the
\* directory is opened again, every key whose last logged mutation is a put
\* reads exactly the value put (the WAL holding complete records only).
C4_CrashRecovery ==
    (status = "open" /\ lastOp = "open" /\ lastDown \in {"crash", "abort"}
        /\ walShape = "clean") =>
        \A c \in CFNames, k \in Keys :
            logged[c][k] \in Values => DbGet(St, c, k) = logged[c][k]

\* C4 witness: an engine opened after a kill, with unflushed puts in two
\* families read back from the WAL.
C4_Witness ==
    /\ status = "open" /\ lastOp = "open" /\ lastDown = "crash"
    /\ walShape = "clean"
    /\ logged["a"][<<1, 2>>] = <<8>>
    /\ logged["b"][<<1>>] = <<7>>
    /\ DbGet(St, "a", <<1, 2>>) = <<8>>
    /\ DbGet(St, "b", <<1>>) = <<7>>

\* C5: a process crash never loses a completed mutation: after any puts,
\* deletes, crashes (also inside a WAL write) and reopens without a flush,
\* every completed mutation is in the memtables after the next reopen.
C5_NoCompletedMutationLost ==
    (status = "open" /\ lastOp = "open" /\ lastDown = "crash") =>
        \A c \in CFNames, k \in Keys :
            logged[c][k] # NoMut => MemtableHolds(c, k, logged[c][k])

\* C6: replay of a WAL whose last record is cut short: the engine opens, the
\* cut record is not applied and every earlier record is, so the memtables
\* are those of the last completely written record.
C6_TruncatedTail ==
    (status = "open" /\ lastOp = "open" /\ walShape = "tornTail") =>
        \A c \in CFNames, k \in Keys : MemtableHolds(c, k, logged[c][k])

\* C6 witness: an engine opened on a WAL of one complete record for key <<1>>
\* followed by a cut record naming key <<1, 2>>; only the first is applied.
C6_Witness ==
    /\ status = "open" /\ lastOp = "open" /\ walShape = "tornTail"
    /\ logged["a"][<<1>>] = <<7>>
    /\ logged["a"][<<1, 2>>] = NoMut
    /\ \E i \in 1..Len(walFile) :
            walFile[i].t = "key" /\ FromHex(walFile[i].h) = <<1, 2>>
    /\ HasCf(cfs, "a")
    /\ CfOf(cfs, "a").memtable = <<<<<<1>>, <<7>>>>>>

\* C7: prefix scan: on one engine that never crashed, prefix_scan(p) returns
\* exactly the keys with prefix p whose most recent mutation is a put, once
\* each, with the value last put, in key order.
C7_PrefixScan ==
    (status = "open" /\ ~reopened) =>
        \A c \in CFNames, p \in Prefixes :
            DbPrefixScan(St, c, p) = ExpectedScan(c, p)

\* C8: compaction preserves the visible state: get of every key and
\* prefix_scan of every prefix return the same just before and just after
\* compact(), and a compact() right after a compact() changes nothing.
C8_CompactionPreserves ==
    [][lastOp' = "compact" =>
        /\ \A c \in CFNames, k \in Keys : DbGet(St', c, k) = DbGet(St, c, k)
        /\ \A c \in CFNames, p \in Prefixes :
                DbPrefixScan(St', c, p) = DbPrefixScan(St, c, p)
        /\ lastOp = "compact" => St' = St]_vars

\* The records flush writes for a memtable: a tombstone as the empty value
FlushedRecords(mem) ==
    [i \in 1..Len(mem) |-> <<mem[i][1], IF mem[i][2] = None THEN <<>> ELSE mem[i][2]>>]

\* C9: flush postcondition: after flush(), for every family whose memtable
\* was non-empty the file named by the previous next_file_id exists and
\* holds the memtable's entries, the saved manifest lists it as the newest
\* segment; every memtable is empty and the WAL file is empty.
C9_FlushPostcondition ==
    [][lastOp' = "flush" =>
        /\ \A i \in 1..Len(cfs) :
              LET name == cfs[i].name
                  sst == SstName(manifest[name].next_file_id)
              IN  cfs[i].memtable # <<>> =>
                    /\ sst \in DOMAIN sstFiles'[name]
                    /\ SstRecords(sstFiles'[name][sst]) = FlushedRecords(cfs[i].memtable)
                    /\ manifestFile'.exists
                    /\ name \in DOMAIN manifestFile'.cfs
                    /\ LET listed == manifestFile'.cfs[name].sstables
                       IN  listed # <<>> /\ listed[Len(listed)].file = sst
        /\ \A i \in 1..Len(cfs') : cfs'[i].memtable = <<>>
        /\ walFile' = <<>>]_vars

\* C9 witness: a flush has written a segment for each of two families, one
\* of them holding a tombstone, and emptied the WAL.
C9_Witness ==
    /\ status = "open" /\ lastOp = "flush"
    /\ SstName(0) \in DOMAIN sstFiles["a"]
    /\ SstName(0) \in DOMAIN sstFiles["b"]
    /\ manifestFile.exists
    /\ Len(manifestFile.cfs["a"].sstables) = 1
    /\ walFile = <<>>
    /\ nMut = 2

\* C10: a deletion survives close and reopen: after a delete, close() with
\* its final flush and a reopen, get of the key returns absent on the new
\* engine, before and after ensure_cf.
C10_DeleteSurvivesReopen ==
    (status = "open" /\ reopened /\ ~crashed) =>
        \A c \in CFNames, k \in Keys :
            (shadow[c][k] = None /\ live[c][k] = NoMut) => DbGet(St, c, k) = None

\* The engine after the calls put / delete of a list of operations, made one
\* after the other by the caller
RECURSIVE OneByOne(_, _)
OneByOne(st, operations) ==
    IF operations = <<>> THEN st
    ELSE LET o == Head(operations)
             next == IF o[1] = "put" THEN DbPut(st, o[2], o[3], o[4])
                     ELSE DbDelete(st, o[2], o[3])
         IN  OneByOne(next, Tail(operations))

\* C11: write_batch applies its operations in the order they were added, last
\* write wins: the state after write_batch(batch) is the state after the same
\* puts and deletes issued one by one, and a batch of delete(k) then
\* put(k, v) leaves get(k) = v.
C11_BatchIsSequential ==
    [][lastOp' = "write_batch" =>
        \A b \in Batches : WriteBatch(b) =>
            /\ St' = OneByOne(St, b)
            /\ (b[1][1] = "delete" /\ b[2][1] = "put" /\ b[1][3] = b[2][3]) =>
                    DbGet(St', b[2][2], b[2][3]) = b[2][4]]_vars

\* C11 witness: a batch of delete(k) then put(k, v) was applied to a family
\* that exists: both records are in the WAL in that order and get(k) is v.
C11_Witness ==
    /\ status = "open" /\ lastOp = "write_batch"
    /\ Len(walFile) = 9
    /\ walFile[3].s = "delete"
    /\ walFile[7].s = "put"
    /\ walFile[4].h = walFile[8].h
    /\ DbGet(St, "a", FromHex(walFile[8].h)) = FromHex(walFile[9].h)

\* What get returns for every key of every family once the family is loaded
ReadsOf(st) ==
    [c \in CFNames |-> [k \in Keys |-> DbGet(EnsureCf(st, c), c, k)]]

\* C12: write_batch is atomic: after a crash during the call and a reopen,
\* the engine reads either as if no operation of the batch had been applied
\* or as if all of them had.
C12_BatchAtomic ==
    [][\A b \in Batches : CrashInBatch(b) =>
        \/ ReadsOf(DbOpen(St')) = ReadsOf(DbOpen(St))
        \/ ReadsOf(DbOpen(St')) = ReadsOf(DbOpen(DbWriteBatch(St, b)))]_vars

\* C13: at every instant of flush() and compact(), so in the directory every
\* crash leaves, each segment file that manifest.json lists exists on disk.
C13_ManifestFilesExist ==
    \A c \in DOMAIN manifestFile.cfs :
        \A i \in 1..Len(manifestFile.cfs[c].sstables) :
            manifestFile.cfs[c].sstables[i].file \in DOMAIN sstFiles[c]

\* C14: a key that read v before a compact() that a crash interrupted still
\* reads v after reopening and ensure_cf, whatever calls follow, as long as
\* none of them mutates the key.
C14_CompactCrashKeepsData ==
    \A c \in CFNames : \A k \in Keys :
        (status = "open" /\ HasCf(cfs, c) /\ pinned[c][k] \in Values) =>
            DbGet(St, c, k) = pinned[c][k]

\* A step of compact(), to its end or to the crash inside it
CompactionStep ==
    \/ lastOp' \in {"compact", "compact raised"}
    \/ lastOp' = "crash" /\ lastDown' \in {"crash in compact",
                                            "crash in compact, nothing unlinked"}

\* C15: segment files are immutable: no step changes the bytes of a segment
\* file that exists, and a segment file disappears only in a compaction.
C15_SegmentsImmutable ==
    [][\A c \in CFNames :
        /\ \A f \in (DOMAIN sstFiles[c]) \cap (DOMAIN sstFiles'[c]) :
                sstFiles'[c][f] = sstFiles[c][f]
        /\ (\E f \in DOMAIN sstFiles[c] : f \notin DOMAIN sstFiles'[c]) =>
                CompactionStep]_vars

\* The segment files manifest.json lists for a family
Listed(c) ==
    IF c \in DOMAIN manifestFile.cfs
    THEN {manifestFile.cfs[c].sstables[i].file :
             i \in 1..Len(manifestFile.cfs[c].sstables)}
    ELSE {}

\* C16: after a crash inside flush() that wrote a segment file and did not
\* save the manifest, and a reopen, the segment list of every family, once
\* loaded, holds exactly the files the persisted manifest lists.
C16_OrphanIgnored ==
    (status = "open" /\ lastOp = "open"
        /\ lastDown = "crash in flush, manifest not saved") =>
        \A c \in CFNames :
            LET loaded == CfOf(EnsureCf(St, c).cfs, c).sstables
            IN  {loaded[i] : i \in 1..Len(loaded)} = Listed(c)

\* What get and prefix_iterator return for every key and prefix
ResultsOf(st) ==
    [get |-> [c \in CFNames |-> [k \in Keys |-> DbGet(st, c, k)]],
     scan |-> [c \in CFNames |-> [p \in Prefixes |-> DbPrefixScan(st, c, p)]]]

\* C17: when compact() fails, or the process crashes, after the compacted
\* file is written and before an old file is deleted, get and prefix_scan
\* return what they returned before the compaction, in the surviving
\* process and in the reopened one.
C17_CompactFailureReadable ==
    [][/\ lastOp' = "compact failed" => ResultsOf(St') = ResultsOf(St)
       /\ (lastOp' = "crash" /\ lastDown' = "crash in compact, nothing unlinked")
             => ResultsOf(DbOpen(St')) = ResultsOf(St)]_vars

\* C18: after put(cf, k, v), flush(), close() and a reopen, and before any
\* ensure_cf or write, get(cf, k) returns v and prefix_iterator(cf, k) holds
\* the flushed key.
C18_FamiliesAfterOpen ==
    (status = "open" /\ lastOp = "open" /\ lastDown = "close") =>
        \A c \in CFNames : \A k \in Keys :
            shadow[c][k] \in Values =>
                /\ DbGet(St, c, k) = shadow[c][k]
                /\ \E i \in 1..Len(DbPrefixScan(St, c, k)) :
                      DbPrefixScan(St, c, k)[i] = <<k, shadow[c][k]>>

\* C19: a put or delete that raises leaves no trace: get of its key returns
\* what it returned before the call.
C19_FailedCallLeavesNoTrace ==
    [][\A o \in MutOps : MutationFails(o) =>
        DbGet(St', o[2], o[3]) = DbGet(St, o[2], o[3])]_vars

\* The foreground caller is inside the critical section of a call
FgInside == fg.pc \in {"in", "joining", "flushing"}

\* The maintenance thread is inside its WAL fsync or its compaction
MtInside == mt \in {"fsync", "compacting"}

\* C20: in every interleaving the maintenance thread's WAL fsync and
\* compaction never run while a foreground call is inside its critical
\* section, and no foreground call is inside it while they run.
C20_MutualExclusion == ~(FgInside /\ MtInside)

\* C20 witness: a foreground call waits for the lock while the maintenance
\* thread compacts a family of more than 3 segments.
C20_Witness ==
    /\ mt = "compacting"
    /\ fg.pc = "waiting"
    /\ ShouldCompact(St)

\* C21: once close() has returned, the maintenance thread is in no WAL
\* fsync and in no compaction (which saves the manifest and deletes
\* segments).
C21_CloseStopsMaintenance == status = "closed" => ~MtInside

\* C22: whatever fails in an iteration of the maintenance loop, the thread
\* goes on: it never dies of an exception, and it ends only after close()
\* has set the stop event.
C22_MaintenanceSurvives ==
    /\ mt # "dead"
    /\ mt = "done" => stopEvent

\* C23: the maintenance thread is started only after the replay of the WAL:
\* while open() replays records into the memtables the thread has not been
\* started, so that no fsync and no compaction of it can happen.
C23_ThreadStartsAfterReplay ==
    status = "opening" => (mt = "not started" /\ ~MtInside)

\* open() is in the middle of a replay: a record has been applied, another
\* one is still to come
C23_Witness ==
    /\ status = "opening"
    /\ fg.op[2] > 1
    /\ ~ReplayEnded(walFile, fg.op[2])
    /\ cfs # <<>>

\* The engine that the steps of open() leave is the engine of DbOpen
StartupIsDbOpen ==
    [][OpenFinish => St' = DbOpen(St')]_vars

\* C24: a failure of the replay other than a record cut short at the end of
\* the file is fatal: open() never returns an engine when the replay met a
\* complete record whose payload does not decode.
C24_ReplayFailureIsFatal ==
    (status = "open" /\ lastOp = "open") => ~ReplayRaises(walFile, 1)

\* wal.log after a step begins with wal.log before it
WalKept ==
    /\ Len(walFile) <= Len(walFile')
    /\ SubSeq(walFile', 1, Len(walFile)) = walFile

\* After the step every memtable of the engine is in a segment file that
\* manifest.json lists, and manifest.json is the manifest of the engine
FlushedAll ==
    /\ manifestFile'.exists
    /\ manifestFile'.cfs = manifest'
    /\ \A i \in 1..Len(cfs) :
          LET name == cfs[i].name IN
          /\ cfs'[i].memtable = <<>>
          /\ cfs[i].memtable # <<>> =>
                \E j \in 1..Len(manifestFile'.cfs[name].sstables) :
                    LET file == manifestFile'.cfs[name].sstables[j].file
                    IN  /\ file \in DOMAIN sstFiles'[name]
                        /\ sstFiles'[name][file] = SstEncode(cfs[i].memtable)

\* C25: the WAL is emptied only by a flush() that succeeds: a step either
\* keeps every record of wal.log (calls, a flush() that fails, crashes inside
\* flush() and compact(), reopen), or it is a flush() that has written every
\* memtable to a segment and saved the manifest.
C25_WalEmptiedAfterFlush ==
    [][WalKept \/ (walFile' = <<>> /\ lastOp' = "flush" /\ FlushedAll)]_vars

\* A flush() has emptied a WAL that held records
C25_Witness ==
    /\ lastOp = "flush"
    /\ walFile = <<>>
    /\ status = "open"
    /\ \E c \in CFNames : \E k \in Keys : shadow[c][k] # NoMut
    /\ \E i \in 1..Len(cfs) : cfs[i].sstables # <<>>

\* C26: open() on a directory whose manifest.json is missing or malformed
\* returns an engine with an empty manifest structure: its manifest has
\* 'cfs', with no entries but the new ones the replay of the WAL makes.
C26_ManifestFallback ==
    [][(lastOp = "manifest damaged" /\ lastOp' = "open") =>
          /\ status' = "open"
          /\ \A c \in DOMAIN manifest' : manifest'[c] = NewManifestEntry]_vars

\* C27: put and delete return the previous value: what the call returns is
\* what get of the same family and key returned immediately before the call.
C27_ReturnsPrevious ==
    [][lastOp' \in {"put", "delete"} =>
          \A o \in MutOps :
              Mutation(o) => Returns(St, o) = DbGet(St, o[2], o[3])]_vars

\* The engine after open() on the directory with only the first n units of
\* wal.log, when the whole wal.log is then replayed into it
ReplayedAgain(n) ==
    LET part == DbOpen([St EXCEPT !.walFile = SubSeq(walFile, 1, n)])
    IN  ReplayWal([part EXCEPT !.walFile = walFile], 1)

\* C28: the replay of the WAL is idempotent: an engine that open() returns
\* holds the memtables of one replay into an empty engine; replayed into
\* memtables that hold the result of replaying it, or of replaying any prefix
\* of it, the WAL gives those same memtables.
C28_ReplayIdempotent ==
    (status = "open" /\ lastOp = "open") =>
        \A n \in 0..Len(walFile) : ReplayedAgain(n).cfs = cfs

\* An engine was opened on a WAL of two records and holds what they say
C28_Witness ==
    /\ status = "open"
    /\ lastOp = "open"
    /\ Len(walFile) >= 8
    /\ \E i \in 1..Len(cfs) : cfs[i].memtable # <<>>
    /\ ~ReplayRaises(walFile, 1)

\* put, delete and write_batch do not fsync: the mutations that an fsync has
\* made durable change only in flush_wal, flush and close.
OnlyFsyncMakesDurable ==
    [][walSynced'.muts # walSynced.muts =>
          lastOp' \in {"flush_wal", "flush", "close"}]_vars

\* C29: after a power loss the engine opened on the directory has recovered
\* every mutation that was appended before the last completed fsync of
\* wal.log: its key has an entry in the memtable, and the entry is that
\* mutation when no later mutation of the key was made.  Only mutations
\* appended after the fsync can be missing.
C29_SyncedIsRecovered ==
    (status = "open" /\ lastOp = "open" /\ lastDown = "power loss") =>
        \A c \in CFNames : \A k \in Keys :
            walSynced.muts[c][k] # NoMut =>
                /\ HasCf(cfs, c)
                /\ MemHas(CfOf(cfs, c).memtable, k)
                /\ logged[c][k] = walSynced.muts[c][k] =>
                       MemtableHolds(c, k, logged[c][k])

\* C30: a compaction that the scheduler starts is limited to the families
\* that qualify: a family with 3 segments or fewer has the same segment list
\* after the compaction as before it.
C30_SchedulerCompactsQualifying ==
    [][lastOp' = "maintenance compact" /\ mt = "compacting" =>
          \A i \in 1..Len(cfs) :
              Len(cfs[i].sstables) <= 3 =>
                  cfs'[i].sstables = cfs[i].sstables]_vars

\* The value that the newest of the segment files ssts (oldest first) with
\* a record of key holds for it: NoMut when none has one, the empty value
\* for a tombstone
RECURSIVE NewestRecord(_, _, _)
NewestRecord(dir, ssts, key) ==
    IF ssts = <<>> THEN NoMut
    ELSE LET last == ssts[Len(ssts)]
             recs == IF last \in DOMAIN dir THEN SstRecords(dir[last]) ELSE <<>>
             hits == {i \in 1..Len(recs) : recs[i][1] = key}
         IN  IF hits # {}
             THEN recs[CHOOSE i \in hits : \A j \in hits : j <= i][2]
             ELSE NewestRecord(dir, SubSeq(ssts, 1, Len(ssts) - 1), key)

\* The family at position i of self.cfs, which had 2 segments or more before
\* the step, has the result of a compaction after it
CompactionResult(i) ==
    LET name == cfs[i].name
        old == cfs[i].sstables
        new == cfs'[i].sstables
    IN  /\ Len(new) = 1
        /\ Len(manifest'[name].sstables) = 1
        /\ manifest'[name].sstables[1].file = new[1]
        /\ manifestFile'.cfs = manifest'
        /\ \A j \in 1..Len(old) : old[j] \notin DOMAIN sstFiles'[name]
        /\ new[1] \in DOMAIN sstFiles'[name]
        /\ LET recs == SstRecords(sstFiles'[name][new[1]])
           IN  /\ \A j \in 1..Len(recs) : recs[j][2] # <<>>
               /\ \A j \in 1..(Len(recs) - 1) : LexLess(recs[j][1], recs[j + 1][1])
               /\ \A k \in Keys :
                     LET newest == NewestRecord(sstFiles[name], old, k)
                     IN  IF newest \in {NoMut, <<>>}
                         THEN \A j \in 1..Len(recs) : recs[j][1] # k
                         ELSE \E j \in 1..Len(recs) : recs[j] = <<k, newest>>
               /\ \A j \in 1..Len(recs) : recs[j][1] \in Keys

\* C31: the result of a compaction: a family that has 2 segments or more
\* is left by compact() with one segment, listed alone in the manifest,
\* which holds for each key the value of the newest old segment with the
\* key, no tombstone and no key twice, sorted by key; the old segment files
\* are deleted.
C31_CompactionResult ==
    [][lastOp' \in {"compact", "compact raised"} =>
          \A i \in 1..Len(cfs) :
              Len(cfs[i].sstables) >= 2 => CompactionResult(i)]_vars

\* The step is one of the foreground caller in which the body of a call
\* reads or writes the engine state
FgAccess == fg.pc \in {"in", "flushing"} /\ fg' # fg

\* The step is one of the maintenance thread in which it uses the WAL
\* handle (fsync), reads the family map and the segment lists
\* (_should_compact) or compacts
MtAccess == mt \in {"fsync", "should_compact", "compacting"} /\ mt' # mt

\* C32: every access to the engine state is made under the coordinator
\* lock: in every interleaving a step of the foreground caller or of the
\* maintenance thread that reads or writes the family map, the segment
\* lists, the memtables, the WAL handle or the manifest is taken by a
\* thread that holds the lock.
C32_AccessUnderLock ==
    [][/\ FgAccess => lockOwner = "fg"
       /\ MtAccess => lockOwner = "mt"]_vars

\* ------------------------------------------------------ the empty value
\* The calls of the foreground with b'' among the values of put
EmptyValue == <<>>
NextEmptyValue ==
    \/ \E k \in Keys : \E v \in Values \cup {EmptyValue} : Put("a", k, v)
    \/ \E k \in Keys : Delete("a", k)
    \/ Flush
    \/ Compact
    \/ Crash
    \/ Reopen

SpecEmptyValue == Init /\ [][NextEmptyValue]_vars

\* Key k of the family at position i of self.cfs has the empty value in
\* the memtable
HoldsEmpty(i, k) ==
    MemHas(cfs[i].memtable, k) /\ MemGet(cfs[i].memtable, k) = EmptyValue

\* C33: a zero-length value is a tombstone once it is persisted: after
\* put(cf, k, b'') and flush(), get(cf, k) returns absent and no prefix
\* scan has k.
C33_EmptyValueIsTombstone ==
    [][lastOp' = "flush" =>
          \A i \in 1..Len(cfs) : \A k \in Keys :
              HoldsEmpty(i, k) =>
                  /\ DbGet(St', cfs[i].name, k) = None
                  /\ \A p \in Prefixes :
                        LET items == DbPrefixScan(St', cfs[i].name, p)
                        IN  \A j \in 1..Len(items) : items[j][1] # k]_vars

\* The memtable of family c in the families fams, empty when c is not there
MemtableOf(fams, c) ==
    IF HasCf(fams, c) THEN CfOf(fams, c).memtable ELSE <<>>

\* The memtables that a replay of the current WAL makes of empty ones
Replayed == ReplayWal([St EXCEPT !.cfs = <<>>], 1).cfs

\* C34: WAL and memtables agree: without errors (no torn or undecodable
\* record in the WAL), whenever no operation is in progress, the memtable of
\* every family equals what a replay of the current WAL onto empty
\* memtables gives, with the same keys, values and tombstones; right after
\* flush() the WAL and the memtables are empty.
C34_WalMemtableAgreement ==
    (status = "open" /\ walShape = "clean") =>
        /\ \A c \in CFNames : MemtableOf(cfs, c) = MemtableOf(Replayed, c)
        /\ lastOp = "flush" =>
              /\ walFile = <<>>
              /\ \A c \in CFNames : MemtableOf(cfs, c) = <<>>

\* A memtable holds a value and a tombstone after a put and a delete, and
\* the WAL has the two records
C34_Witness ==
    /\ status = "open"
    /\ walShape = "clean"
    /\ lastOp = "delete"
    /\ \E c \in CFNames :
          /\ Len(MemtableOf(cfs, c)) = 2
          /\ \E i, j \in 1..2 : /\ MemtableOf(cfs, c)[i][2] = None
                                 /\ MemtableOf(cfs, c)[j][2] \in Values
    /\ ReplayReach(walFile, 1) = Len(walFile)
    /\ walFile # <<>>

\* C35: the two read paths agree: in every state of a running engine, for
\* every family, prefix p and key k that starts with p, prefix_scan(p) has
\* the pair (k, v) exactly when get(cf, k) returns the non-empty value v,
\* and has no pair of k exactly when get(cf, k) returns absent.
C35_ReadPathsAgree ==
    status = "open" =>
        \A c \in CFNames : \A p \in Prefixes : \A k \in Keys :
            StartsWith(k, p) =>
                LET items == DbPrefixScan(St, c, p)
                    got == DbGet(St, c, k)
                    found == {i \in 1..Len(items) : items[i][1] = k}
                IN  /\ \A v \in Values :
                          (\E i \in found : items[i][2] = v) <=> got = v
                    /\ found = {} <=> got = None

\* ------------------------------------------- every crash point of flush
\* The process is killed inside flush() after self.wal_path.unlink and
\* before the new WAL file is opened: the segments are written, the
\* manifest is saved, wal.log is gone.
CrashInFlushWalUnlinked ==
    /\ status = "open"
    /\ UNCHANGED <<threads, walSynced>>
    /\ CanFlush(St)
    /\ Gone(DbFlush(St))
    /\ status' = "down"
    /\ lastOp' = "crash"
    /\ lastDown' = "crash in flush, WAL unlinked"
    /\ live' = NoHistory
    /\ logged' = NoHistory
    /\ walShape' = "clean"
    /\ crashed' = TRUE
    /\ UNCHANGED <<shadow, reopened, nMut, pinned>>

NextFlushCrash ==
    \/ \E c \in CFNames : EnsureCfCall(c)
    \/ \E o \in PutInputs : Put(o[2], o[3], o[4])
    \/ \E k \in Keys : Delete("a", k)
    \/ Flush
    \/ CrashInFlush
    \/ CrashInFlushWalUnlinked
    \/ Reopen

SpecFlushCrash == Init /\ [][NextFlushCrash]_vars

\* ensure_cf of the families fams[i], fams[i + 1], ... on engine st
RECURSIVE EnsureAll(_, _, _)
EnsureAll(st, fams, i) ==
    IF i > Len(fams) THEN st
    ELSE EnsureAll(EnsureCf(st, fams[i].name), fams, i + 1)

\* The process was killed at a crash point of flush() in this step
KilledInFlush ==
    /\ status = "open"
    /\ status' = "down"
    /\ lastDown' \in {"crash in flush, manifest not saved",
                      "crash in flush, manifest saved",
                      "crash in flush, WAL unlinked"}

\* C36: a crash in flush() preserves the visible state: for every crash
\* point of flush() (after a segment write, after the manifest save, after
\* the WAL unlink), after reopen and ensure_cf of each family, get returns
\* for every key what it returned just before flush() was called.
C36_FlushCrashKeepsReads ==
    [][KilledInFlush =>
          LET after == EnsureAll(DbOpen(St'), cfs, 1)
          IN  \A c \in CFNames : \A k \in Keys :
                  DbGet(after, c, k) = DbGet(St, c, k)]_vars

\* The segment list of family c once ensure_cf(c) has been called
SegmentsOf(c) == CfOf(EnsureCf(St, c).cfs, c).sstables

\* C37: the segment lists agree: without crashes, after every completed
\* ensure_cf, put, delete, flush and compact, and after close(), reopen and
\* ensure_cf, the segment list of each family holds the file names of the
\* family's manifest segment list in the same order, without duplicates
\* and in strictly increasing file-id order, and every listed file exists.
C37_SegmentListsAgree ==
    (status = "open" /\ ~crashed) =>
        \A c \in DOMAIN manifest :
            LET segs == SegmentsOf(c)
                listed == manifest[c].sstables
            IN  /\ Len(segs) = Len(listed)
                /\ \A i \in 1..Len(segs) : segs[i] = listed[i].file
                /\ \A i \in 1..(Len(segs) - 1) : LexLess(segs[i], segs[i + 1])
                /\ \A i \in 1..Len(segs) : segs[i] \in DOMAIN sstFiles[c]

\* An engine reopened after close() whose family, once ensured, has two
\* segments
C37_Witness ==
    /\ status = "open"
    /\ ~crashed
    /\ lastOp = "open"
    /\ lastDown = "close"
    /\ "a" \in DOMAIN manifest
    /\ ~HasCf(cfs, "a")
    /\ Len(SegmentsOf("a")) = 2

\* The engine with every memtable emptied
WithoutMemtables(st) ==
    [st EXCEPT !.cfs = [i \in 1..Len(st.cfs) |->
                           [st.cfs[i] EXCEPT !.memtable = <<>>]]]

\* compact() has run in this step, in the foreground or in the maintenance
\* thread
Compacted ==
    IF fg.pc = "in" /\ fg'.pc = "idle" THEN fg.op[1] = "compact"
    ELSE mt = "compacting" /\ mt' = "wait"

\* C39: compact() touches only segments and the manifest: every memtable
\* and the WAL are as before, the segment files it leaves are those it
\* leaves with empty memtables (no unflushed mutation is merged), and a
\* family of fewer than 2 segments keeps its segment list, its files, its
\* next_file_id and its sequence.
C39_CompactFrame ==
    [][Compacted =>
          /\ walFile' = walFile
          /\ Len(cfs') = Len(cfs)
          /\ sstFiles' = DbCompact(WithoutMemtables(St)).sstFiles
          /\ \A i \in 1..Len(cfs) :
                /\ cfs'[i].name = cfs[i].name
                /\ cfs'[i].memtable = cfs[i].memtable
                /\ Len(cfs[i].sstables) < 2 =>
                      /\ cfs'[i].sstables = cfs[i].sstables
                      /\ sstFiles'[cfs[i].name] = sstFiles[cfs[i].name]
                      /\ manifest'[cfs[i].name] = manifest[cfs[i].name]]_vars

\* After a compaction family "a" has its compacted segment and an unflushed
\* mutation, which is in the WAL, and family "b" has the one segment it had
C39_Witness ==
    /\ lastOp \in {"compact", "maintenance compact"}
    /\ HasCf(cfs, "a") /\ HasCf(cfs, "b")
    /\ CfOf(cfs, "a").sstables = <<SstName(4)>>
    /\ CfOf(cfs, "a").memtable # <<>>
    /\ Len(CfOf(cfs, "b").sstables) = 1
    /\ walFile # <<>>

\* ------------------------------------------------------ fair scheduling
\* A step of a thread is a move of its program counter.  The foreground
\* can take a step of the call it has made (FgEnter, FgBody, CloseSetStop,
\* CloseJoin, CloseFinish) when it does not wait: for the lock, in close()
\* for the join to return, or for a file id.
FgReady ==
    IF fg.pc = "waiting" THEN LockFree("fg")
    ELSE IF fg.pc = "in" THEN fg.op[1] = "close" \/ ThreadCanRun(St, fg.op)
    ELSE IF fg.pc = "joining" THEN JoinReturns
    ELSE IF fg.pc = "flushing" THEN ThreadCanRun(St, fg.op)
    ELSE FALSE
FgPositions ==
    [pc : {"idle", "waiting", "in", "joining", "flushing", "closed"},
     op : ThreadCalls \cup {<<>>}]
FgStep == FgReady /\ fg' \in FgPositions /\ fg' # fg

\* The maintenance thread can take a step (MtWake, MtFlushWalEnter,
\* MtFsync, MtCheck, MtShouldCompact, MtCompactEnter, MtCompact) when it has
\* not ended and does not wait for the lock or for a file id.
MtReady ==
    IF mt \in {"flush_wal", "compact"} THEN LockFree("mt")
    ELSE IF mt = "compacting" THEN ThreadCanRun(St, <<"compact">>)
    ELSE mt \in {"wait", "fsync", "check", "should_compact"}
MtPositions ==
    {"wait", "flush_wal", "fsync", "check", "should_compact", "compact",
     "compacting", "done", "dead"}
MtStep == MtReady /\ mt' \in MtPositions /\ mt' # mt

\* Fair scheduling: a thread that can take a step again and again takes one
\* in the end.  The scheduler runs every runnable thread, and a thread that
\* waits for the lock gets it when the lock is free again and again (the
\* maintenance thread sleeps on the stop event between its calls).  The
\* foreground is free to make no further call.
SpecThreadsFair == SpecThreads /\ SF_fg(FgStep) /\ SF_mt(MtStep)

\* A thread moves only when it is ready to
ReadyToStep ==
    [][/\ (fg' # fg /\ fg.pc # "idle") => FgReady
       /\ mt' # mt => MtReady]_vars

\* The file ids left never keep a thread that holds the lock from going on
NeverOutOfFileIds ==
    /\ fg.pc \in {"in", "flushing"} => ThreadCanRun(St, fg.op)
    /\ mt = "compacting" => ThreadCanRun(St, <<"compact">>)

\* close() has been called and has not returned
CloseCalled == fg.pc # "idle" /\ fg.pc # "closed" /\ fg.op[1] = "close"

\* The maintenance thread has left its loop
LoopEnded == mt \in {"done", "dead"}

\* C38: under fair scheduling a call of close() returns, also when the
\* maintenance thread waits for the lock that close() holds while it joins
\* the thread, and once close() has set the stop event the maintenance
\* thread leaves its loop.
C38_CloseTerminates ==
    /\ CloseCalled ~> status = "closed"
    /\ stopEvent ~> LoopEnded

\* close() joins the maintenance thread while the thread waits for the lock
C38_Witness ==
    /\ fg.pc = "joining"
    /\ lockOwner = "fg"
    /\ mt \in {"flush_wal", "compact"}
====
